---- MODULE Spec2Model ----
(***************************************************************************)
(* Model of the project registry (lib/project/registry.py), the project    *)
(* set (lib/project/set.py), the project loader (lib/project/project.py),  *)
(* the condition parser (lib/project/parse_condition.py), the solution     *)
(* (lib/solution.py) and the build order of scan_deps/__main__.py.         *)
(*                                                                         *)
(* The specifications of the module:                                       *)
(*   Spec          a client that calls ProjectSet.add                      *)
(*   SpecFair      the same, a call once entered running on                *)
(*   SpecRegistry  a client that calls ProjectRegistry.load directly       *)
(*   SpecReentrant the same with load calls made during a load             *)
(*   SpecSolution  Solution.topsort on a loaded solution                   *)
(*   SpecProps     Project._load_props on a bounded document               *)
(*   SpecCond      parse_condition on bounded texts                        *)
(*   SpecScan      Solution._scan_projects on a loaded solution            *)
(*   SpecBuild     compute_build_order on a filled project set             *)
(*   SpecOutput    output derivation and the output index of ProjectSet    *)
(*   SpecDangling  the dangling assemblies and sources of ProjectSet       *)
(*   SpecSeeds     Spec with the seeds passed to add recorded              *)
(***************************************************************************)
EXTENDS Naturals, Sequences, FiniteSets

\* ------------------------------------------------------------------ bounds
NumProjects == 3          \* project identities 1..NumProjects
NumOutputs == 1           \* derivable output identities 1..NumOutputs
MaxRefs == 2              \* project references declared by one file
MaxFsChanges == 1         \* edits of the file system during one run
MaxParses == 2            \* cap on the parse counter of one identity
MaxGroups == 2            \* PropertyGroup elements of one document
MaxChildren == 1          \* property elements of one PropertyGroup
MaxTextLen == 4           \* lexemes of one Condition text
NumGuids == 2             \* project GUIDs 1..NumGuids
MaxRefGuids == 4          \* ProjectReference elements of one solution's files

ProjectIds == 1..NumProjects
AssemblyIds == 1..NumOutputs
NoOutput == 0             \* Project.output() returning None

\* ------------------------------------------------------------- file system
\* What Project.load can find at project_id.path: nothing, a file whose parse
\* raises, a well-formed document whose root is not a Project element (and
\* which holds none of the elements the passes look for), or a project file
\* declaring references and deriving an output.
Missing == [kind |-> "missing", refs |-> {}, out |-> NoOutput]
Faulty == [kind |-> "faulty", refs |-> {}, out |-> NoOutput]
Foreign == [kind |-> "foreign", refs |-> {}, out |-> NoOutput]
RefSets == {r \in SUBSET ProjectIds : Cardinality(r) <= MaxRefs}
ProjectFiles ==
    [kind : {"project"}, refs : RefSets, out : AssemblyIds \cup {NoOutput}]
FileStates == {Missing, Faulty, Foreign} \cup ProjectFiles
\* The registry reads no reference and no output: its client runs on
\* files without either (a document with another root loads as such a file).
RegistryFiles ==
    {f \in FileStates : f.refs = {} /\ f.out = NoOutput /\ f # Foreign}

\* ----------------------------------------------------------------- values
NoProject == [oid |-> 0, id |-> 0, refs |-> {}, out |-> NoOutput]
ProjectLoadOk(project) ==
    [kind |-> "Ok", project |-> project, backtrace |-> <<>>]
ProjectLoadDangling(backtrace) ==
    [kind |-> "Dangling", project |-> NoProject, backtrace |-> backtrace]
ProjectLoadIncompatible(backtrace) ==
    [kind |-> "Incompatible", project |-> NoProject, backtrace |-> backtrace]
ProjectLoadCycle(backtrace) ==
    [kind |-> "Cycle", project |-> NoProject, backtrace |-> backtrace]
Raised == [kind |-> "Raised", project |-> NoProject, backtrace |-> <<>>]
NoResult == [kind |-> "None", project |-> NoProject, backtrace |-> <<>>]

\* dict and MultiMap helpers
Put(m, k, v) == [x \in DOMAIN m \cup {k} |-> IF x = k THEN v ELSE m[x]]
Pop(m, k) == [x \in DOMAIN m \ {k} |-> m[x]]
MultiMapAdd(m, k, v) ==
    [x \in DOMAIN m \cup {k} |->
        IF x = k THEN (IF k \in DOMAIN m THEN m[k] ELSE {}) \cup {v} ELSE m[x]]
EmptyMap == [x \in {} |-> 0]

VARIABLES
    fs,                    \* the file system: ProjectIds -> FileStates
    fs_changes,            \* edits made so far
    project_complete,      \* registry: ProjectId -> Project
    project_dangling,      \* registry
    project_incompatible,  \* registry
    project_loading,       \* registry, transient
    project_cyclic,        \* project set
    project_parents,       \* project set, MultiMap child -> parents
    projects_by_output,    \* project set, AssemblyId -> ProjectId
    outputs_by_project,    \* project set, ProjectId -> AssemblyId
    projects_sans_output,  \* project set
    duplicate_outputs,     \* project set, MultiMap AssemblyId -> ProjectIds
    project_ids,           \* ProjectSet.add: the stack of the running call
    pc,                    \* "idle", "add_loop" or "loading"
    project_id,            \* the id of the load in progress / last returned
    result,                \* what the last registry load returned
    next_oid,              \* identity given to the next Project object
    parse_count,           \* ProjectId -> parses of its file (Project._load)
    hist,                  \* observations used to state the claims
    project_roots,         \* Solution: the projects the .sln file declares
    ts_pc,                 \* Solution.topsort: "idle", "roots", "done"
    marks,                 \* Solution.topsort: ProjectId -> Mark
    output,                \* Solution.topsort: the post-order list
    root_ids,              \* Solution.topsort: roots the for loop has left,
                           \*   the head being the root under visit
    visit_stack,           \* Solution.topsort: the frames of visit
    topsort_result,        \* Solution.topsort: the returned pair
    registry_config,       \* _load_props: registry.config()
    props_pc,              \* _load_props: "seed" or "groups"
    props,                 \* _load_props: self._props
    prop_groups,           \* _load_props: the PropertyGroups processed
    prop_trace,            \* _load_props: per group, the table before it and
                           \*   whether its condition matched
    text,                  \* parse_condition: argument
    configuration,         \* parse_condition: argument
    platform,              \* parse_condition: argument
    condition,             \* parse_condition: returned pair, or Pending
    project_ref_ids,       \* Project._project_ref_ids of each complete
                           \*   project, as a set of <<ProjectId, Guid>>
    scan_pc,               \* Solution._scan_projects: "idle", "scan", "done"
    scan_todo,             \* _scan_projects: complete projects not yet visited
    guid_map,              \* _scan_projects: Guid -> first ProjectId seen
    duplicated_guids,      \* Solution: MultiMap Guid -> ProjectIds
    project_undeclared,    \* Solution: MultiMap ProjectId -> ProjectIds
    build_pc,              \* compute_build_order: "idle", "visit", "done"
    build_todo,            \* compute_build_order: ids the for loop has left
    build_pick,            \* compute_build_order: the producer taken for
                           \*   each output name, next(iter(subproject_ids))
    build_order,           \* compute_build_order: build_order
    build_complete,        \* compute_build_order: complete
    build_result,          \* compute_build_order: how the call ended
    project_props,         \* output derivation: Project._props of each
                           \*   complete project of a project set
    project_output,        \* output derivation: what Project.output() gave
    disk,                  \* the paths of assemblies and sources that exist
    project_assembly_refs, \* Project.assembly_refs() of each complete project
    project_source_refs,   \* Project.source_refs() of each complete project
    assembly_dangling,     \* project set, MultiMap ProjectId -> assembly refs
    source_dangling,       \* project set, MultiMap ProjectId -> source refs
    added_seeds            \* the seeds a client has passed to add so far

solution_vars == <<project_roots, ts_pc, marks, output, root_ids, visit_stack,
                   topsort_result>>
props_vars == <<registry_config, props_pc, props, prop_groups, prop_trace>>
cond_vars == <<text, configuration, platform, condition>>
scan_vars == <<project_ref_ids, scan_pc, scan_todo, guid_map,
               duplicated_guids, project_undeclared>>
build_vars == <<build_pc, build_todo, build_pick, build_order,
                build_complete, build_result>>
derive_vars == <<project_props, project_output>>
dangling_vars == <<disk, project_assembly_refs, project_source_refs,
                   assembly_dangling, source_dangling>>
seed_vars == <<added_seeds>>
extra_vars == <<scan_vars, build_vars, derive_vars, dangling_vars, seed_vars>>
\* what the registry and the project set leave alone
other_vars == <<solution_vars, props_vars, cond_vars, extra_vars>>

vars == <<fs, fs_changes, project_complete, project_dangling,
          project_incompatible, project_loading, project_cyclic,
          project_parents, projects_by_output, outputs_by_project,
          projects_sans_output, duplicate_outputs, project_ids, pc,
          project_id, result, next_oid, parse_count, hist, other_vars>>

registry_vars == <<project_complete, project_dangling, project_incompatible,
                   project_loading>>
set_vars == <<project_cyclic, project_parents, projects_by_output,
              outputs_by_project, projects_sans_output, duplicate_outputs>>
call_vars == <<project_ids, pc, project_id, result, next_oid, parse_count,
               hist>>


\* ------------------------------------------------------- Project (loader)
\* Project._load: xml.parse of the file, then the property, assembly, project
\* reference and source passes.  A file whose parse raises yields Raised; a
\* project file yields Ok with the declared references recorded (the related
\* projects are not loaded from here).  The root element is never inspected:
\* the passes search the whole document by tag name, so a document with
\* another root yields Ok as well.  parsed: xml.parse was attempted.
Project_load(file, id, oid) ==
    IF file.kind \in {"project", "foreign"}
    THEN [result |-> ProjectLoadOk([oid |-> oid, id |-> id,
                                    refs |-> file.refs, out |-> file.out]),
          parsed |-> TRUE]
    ELSE [result |-> Raised, parsed |-> TRUE]

\* Variant of Project.load without the existence test: the parse is attempted
\* on whatever is at the path.
ProjectLoad_NoExistsTest(file, id, oid) ==
    IF file.kind \in {"project", "foreign"}
    THEN [result |-> ProjectLoadOk([oid |-> oid, id |-> id,
                                    refs |-> file.refs, out |-> file.out]),
          parsed |-> TRUE]
    ELSE [result |-> Raised, parsed |-> TRUE]

\* Project.load: Dangling before any parse when the path does not exist.
ProjectLoad(file, id, oid) ==
    IF file.kind = "missing"
    THEN [result |-> ProjectLoadDangling(<<id>>), parsed |-> FALSE]
    ELSE Project_load(file, id, oid)

\* Project.output(): the derived output AssemblyId, or None.
Output(project) == project.out

\* ------------------------------------------------------- ProjectRegistry
\* Variant of the cache lookup that forgets the complete map.
LoadCached_NoComplete(complete, dangling, incompatible, loading, id) ==
    IF id \in dangling THEN ProjectLoadDangling(<<id>>)
    ELSE IF id \in incompatible THEN ProjectLoadIncompatible(<<id>>)
    ELSE IF id \in loading THEN ProjectLoadCycle(<<id>>)
    ELSE NoResult

\* Variant of the cache lookup that forgets the dangling set.
LoadCached_NoDangling(complete, dangling, incompatible, loading, id) ==
    IF id \in DOMAIN complete THEN ProjectLoadOk(complete[id])
    ELSE IF id \in incompatible THEN ProjectLoadIncompatible(<<id>>)
    ELSE IF id \in loading THEN ProjectLoadCycle(<<id>>)
    ELSE NoResult

\* Variant of the cache lookup that forgets the loading set.
LoadCached_NoLoading(complete, dangling, incompatible, loading, id) ==
    IF id \in DOMAIN complete THEN ProjectLoadOk(complete[id])
    ELSE IF id \in dangling THEN ProjectLoadDangling(<<id>>)
    ELSE IF id \in incompatible THEN ProjectLoadIncompatible(<<id>>)
    ELSE NoResult

\* ProjectRegistry.load, lines 31-38: the answer from the caches, or NoResult
\* when a fresh load is needed.
LoadCached(complete, dangling, incompatible, loading, id) ==
    IF id \in DOMAIN complete THEN ProjectLoadOk(complete[id])
    ELSE IF id \in dangling THEN ProjectLoadDangling(<<id>>)
    ELSE IF id \in incompatible THEN ProjectLoadIncompatible(<<id>>)
    ELSE IF id \in loading THEN ProjectLoadCycle(<<id>>)
    ELSE NoResult

\* Variant of lines 42-45 without the `finally`: the id leaves the loading
\* set only when Project.load returns.
LoadFinally_ReturnOnly(loading, id, res) ==
    IF res.kind = "Raised" THEN loading ELSE loading \ {id}

\* ProjectRegistry.load, lines 42-45: the `finally` takes the id out of the
\* loading set whether Project.load returned or raised.
LoadFinally(loading, id, res) == loading \ {id}

\* ProjectRegistry.load, lines 47-61: the match on Project.load's result.
\* Gives the registry's sets and the result handed to the caller.
LoadMatch(complete, dangling, incompatible, id, res) ==
    CASE res.kind = "Ok" ->
           [complete |-> Put(complete, id, res.project),
            dangling |-> dangling, incompatible |-> incompatible,
            result |-> ProjectLoadOk(res.project)]
      [] res.kind = "Dangling" ->
           [complete |-> complete,
            dangling |-> dangling \cup {id}, incompatible |-> incompatible,
            result |-> ProjectLoadDangling(Append(res.backtrace, id))]
      [] res.kind = "Incompatible" ->
           [complete |-> complete,
            dangling |-> dangling, incompatible |-> incompatible \cup {id},
            result |-> ProjectLoadIncompatible(Append(res.backtrace, id))]
      [] res.kind = "Cycle" ->
           [complete |-> complete,
            dangling |-> dangling, incompatible |-> incompatible,
            result |-> ProjectLoadCycle(Append(res.backtrace, id))]
      [] OTHER ->  \* the exception leaves the registry through `finally`
           [complete |-> complete,
            dangling |-> dangling, incompatible |-> incompatible,
            result |-> Raised]

\* ------------------------------------------------------------ ProjectSet
\* ProjectSet.add, lines 47-53: the ids the loop skips.
Classified(id) ==
    \/ id \in DOMAIN project_complete
    \/ id \in project_dangling
    \/ id \in project_incompatible
    \/ id \in project_cyclic

\* The orders in which a set can be iterated.
Orders(S) ==
    {s \in [1..Cardinality(S) -> S] : \A i, j \in DOMAIN s : s[i] = s[j] => i = j}

RECURSIVE AddParents_Reversed(_, _, _)
\* Variant of the parent edges that files the reference under the parent.
AddParents_Reversed(parents, order, parent) ==
    IF order = <<>> THEN parents
    ELSE AddParents_Reversed(MultiMapAdd(parents, parent, Head(order)), Tail(order), parent)

RECURSIVE AddParents(_, _, _)
\* ProjectSet.add, lines 57-58: parents.add(subproject_id, project.project_id)
\* for the references in iteration order.
AddParents(parents, order, parent) ==
    IF order = <<>> THEN parents
    ELSE AddParents(MultiMapAdd(parents, Head(order), parent), Tail(order), parent)

\* Variant of the output index without the duplicate_outputs test: a later
\* arrival at a demoted output becomes its single owner again.
AddOutput_NoDupTest(by_output, by_project, sans_output, duplicates, id, assembly) ==
    IF assembly = NoOutput
    THEN [by_output |-> by_output, by_project |-> by_project,
          sans_output |-> sans_output \cup {id}, duplicates |-> duplicates]
    ELSE IF assembly \in DOMAIN by_output
    THEN LET dup_id == by_output[assembly] IN
         [by_output |-> Pop(by_output, assembly),
          by_project |-> Pop(by_project, dup_id),
          sans_output |-> sans_output,
          duplicates |->
              MultiMapAdd(MultiMapAdd(duplicates, assembly, id), assembly, dup_id)]
    ELSE [by_output |-> Put(by_output, assembly, id),
          by_project |-> Put(by_project, id, assembly),
          sans_output |-> sans_output, duplicates |-> duplicates]

\* Variant of the output index without line 74: the project demoted from
\* projects_by_output stays a key of outputs_by_project.
AddOutput_KeepOwner(by_output, by_project, sans_output, duplicates, id, assembly) ==
    IF assembly = NoOutput
    THEN [by_output |-> by_output, by_project |-> by_project,
          sans_output |-> sans_output \cup {id}, duplicates |-> duplicates]
    ELSE IF assembly \in DOMAIN duplicates
    THEN [by_output |-> by_output, by_project |-> by_project,
          sans_output |-> sans_output,
          duplicates |-> MultiMapAdd(duplicates, assembly, id)]
    ELSE IF assembly \in DOMAIN by_output
    THEN LET dup_id == by_output[assembly] IN
         [by_output |-> Pop(by_output, assembly),
          by_project |-> by_project,
          sans_output |-> sans_output,
          duplicates |->
              MultiMapAdd(MultiMapAdd(duplicates, assembly, id), assembly, dup_id)]
    ELSE [by_output |-> Put(by_output, assembly, id),
          by_project |-> Put(by_project, id, assembly),
          sans_output |-> sans_output, duplicates |-> duplicates]

\* ProjectSet.add, lines 67-79: the output collision index.
AddOutput(by_output, by_project, sans_output, duplicates, id, assembly) ==
    IF assembly = NoOutput
    THEN [by_output |-> by_output, by_project |-> by_project,
          sans_output |-> sans_output \cup {id}, duplicates |-> duplicates]
    ELSE IF assembly \in DOMAIN duplicates
    THEN [by_output |-> by_output, by_project |-> by_project,
          sans_output |-> sans_output,
          duplicates |-> MultiMapAdd(duplicates, assembly, id)]
    ELSE IF assembly \in DOMAIN by_output
    THEN LET dup_id == by_output[assembly] IN
         [by_output |-> Pop(by_output, assembly),
          by_project |-> Pop(by_project, dup_id),
          sans_output |-> sans_output,
          duplicates |->
              MultiMapAdd(MultiMapAdd(duplicates, assembly, id), assembly, dup_id)]
    ELSE [by_output |-> Put(by_output, assembly, id),
          by_project |-> Put(by_project, id, assembly),
          sans_output |-> sans_output, duplicates |-> duplicates]

\* Variant of the match whose Cycle arm catches every failed load.
AddCyclic_CatchAll(cyclic, id, res) ==
    IF res.kind # "Ok" THEN cyclic \cup {id} ELSE cyclic

\* ProjectSet.add, lines 80-83: what the match does to the cyclic set.
AddCyclic(cyclic, id, res) ==
    IF res.kind = "Cycle" THEN cyclic \cup {id} ELSE cyclic

\* ------------------------------------------------------- parse_condition
\* A Condition text is a sequence of lexemes: a whitespace character, the
\* operator ==, a quoted operand, or any other run of characters.  Of the
\* configuration alternation (Debug, Release, Setup, Retail, NET20Debug, ...)
\* and the platform alternation (AnyCPU, x86) the model keeps two and one.
Ws == " "
EqEq == "=="
HasConfig == "'$(Configuration)'"
HasPlatform == "'$(Platform)'"
HasBoth == "'$(Configuration)|$(Platform)'"
Lexemes ==
    {Ws, EqEq, HasConfig, HasPlatform, HasBoth, "'Debug'", "'Release'",
     "'x86'", "'Debug|x86'", "''", "'Custom'", "And"}
Texts == UNION {[1..n -> Lexemes] : n \in 0..MaxTextLen}

None == "<None>"          \* Python's None
NoMatch == "<no match>"   \* re.match returning None
Pending == <<"pending">>  \* parse_condition has not returned

\* The quoted operands the three patterns accept on the right of ==.
config_types == {"'Debug'", "'Release'"}
platform_types == {"'x86'"}
combined_types == {"'Debug|x86'"}

\* match.group(CONFIGURATION) and match.group(PLATFORM) of a matched operand.
GroupConfiguration(operand) ==
    CASE operand \in {"'Debug'", "'Debug|x86'"} -> "Debug"
      [] operand = "'Release'" -> "Release"
      [] OTHER -> None
GroupPlatform(operand) ==
    CASE operand \in {"'x86'", "'Debug|x86'"} -> "x86"
      [] OTHER -> None

RECURSIVE SkipWs(_, _)
\* \s* from position i: the first position that holds no whitespace.
SkipWs(t, i) == IF i <= Len(t) /\ t[i] = Ws THEN SkipWs(t, i + 1) ELSE i

\* build_eq_expr(lhs, rhs) applied with re.match: optional whitespace, the
\* quoted lhs, ==, a quoted rhs, each followed by optional whitespace; the
\* match is anchored at the start of the text only.  Gives the rhs operand.
MatchEqExpr(t, lhs, rhs) ==
    LET i1 == SkipWs(t, 1)
        i2 == SkipWs(t, i1 + 1)
        i3 == SkipWs(t, i2 + 1)
    IN  IF /\ i1 <= Len(t) /\ t[i1] = lhs
           /\ i2 <= Len(t) /\ t[i2] = EqEq
           /\ i3 <= Len(t) /\ t[i3] \in rhs
        THEN t[i3] ELSE NoMatch

\* parse_condition(text, configuration, platform), lines 106-118.
parse_condition(t, c, p) ==
    LET just_config == MatchEqExpr(t, HasConfig, config_types)
        just_platform == MatchEqExpr(t, HasPlatform, platform_types)
        combined == MatchEqExpr(t, HasBoth, combined_types)
    IN  IF just_config # NoMatch
        THEN <<GroupConfiguration(just_config), p>>
        ELSE IF just_platform # NoMatch
        THEN <<c, GroupPlatform(just_platform)>>
        ELSE IF combined # NoMatch
        THEN <<GroupConfiguration(combined), GroupPlatform(combined)>>
        ELSE <<c, p>>

\* ----------------------------------------------------- Project._load_props
CONDITION == "Condition"
CONFIGURATION == "Configuration"
PLATFORM == "Platform"
PropNames == {CONFIGURATION, PLATFORM, "AssemblyName"}
Absent == "<absent>"      \* the key is not in the dict
NoProps == [n \in PropNames |-> Absent]
NoConfig == [n \in {CONFIGURATION, PLATFORM} |-> Absent]
RegistryConfigs ==
    {[NoConfig EXCEPT ![CONFIGURATION] = c] : c \in {Absent, "Debug", "Release"}}

\* An element's Condition attribute.
NoCondition == [has |-> FALSE, text |-> <<>>]
Condition(t) == [has |-> TRUE, text |-> t]
ConfigIs(c) == Condition(<<HasConfig, EqEq, c>>)

GroupConditions ==
    {NoCondition, ConfigIs("'Release'"), ConfigIs("'Debug'"), ConfigIs("''")}
PropChildren ==
    {[tag |-> "AssemblyName", cond |-> NoCondition, text |-> "Foo"],
     [tag |-> "AssemblyName", cond |-> NoCondition, text |-> "FooRelease"],
     [tag |-> CONFIGURATION, cond |-> NoCondition, text |-> "Release"],
     [tag |-> CONFIGURATION, cond |-> ConfigIs("''"), text |-> "Debug"]}
PropertyGroups ==
    [cond : GroupConditions,
     children : UNION {[1..n -> PropChildren] : n \in 0..MaxChildren}]

\* Variant of match_env in which a key missing from env matches.
match_env_MissingMatches(key, value, env) ==
    value = None \/ env[key] = Absent \/ env[key] = value

\* match_env, lines 373-379.
match_env(key, value, env) ==
    value = None \/ (env[key] # Absent /\ env[key] = value)

\* match_condition, lines 372-388: parse_condition is called with the text
\* alone, so both of its defaults are None.
match_condition(child, env) ==
    IF ~child.cond.has THEN TRUE
    ELSE LET parsed == parse_condition(child.cond.text, None, None)
         IN  /\ match_env(CONFIGURATION, parsed[1], env)
             /\ match_env(PLATFORM, parsed[2], env)

\* Lines 403-417: one child element of a matching group.
LoadPropChild(env, child) ==
    IF child.tag \in {CONFIGURATION, PLATFORM}
    THEN IF match_condition(child, env)
         THEN [env EXCEPT ![child.tag] = child.text]
         ELSE env
    ELSE [env EXCEPT ![child.tag] = child.text]

RECURSIVE LoadPropChildren(_, _)
\* Lines 401-417: the children in document order.
LoadPropChildren(env, children) ==
    IF children = <<>> THEN env
    ELSE LoadPropChildren(LoadPropChild(env, Head(children)), Tail(children))

\* Lines 396-417: one PropertyGroup.
LoadPropGroup(env, prop_group) ==
    IF ~match_condition(prop_group, env) THEN env
    ELSE LoadPropChildren(env, prop_group.children)

\* -------------------------------------------------------------- Solution
\* The project files a solution is loaded from: Solution._load lets a parse
\* fault escape the constructor, so no file has one; topsort reads no output
\* (a document with another root loads as a project without references).
SolutionFiles ==
    {f \in FileStates : f.kind \in {"missing", "project"} /\ f.out = NoOutput}

RECURSIVE Reachable(_, _)
\* Solution._load_projects: the ids the stack reaches from the roots.
Reachable(files, seen) ==
    LET more == seen \cup UNION {files[p].refs : p \in seen}
    IN  IF more = seen THEN seen ELSE Reachable(files, more)

NoTopsort == [ok |-> FALSE, order |-> <<"none">>]

RECURSIVE Reverse(_)
\* list.reverse()
Reverse(s) == IF s = <<>> THEN <<>> ELSE Append(Reverse(Tail(s)), Head(s))

\* Variant of the entry of visit that takes a GREY mark for a BLACK one.
VisitEntry_GreyAsBlack(ms, out, id) ==
    IF ms[id] \in {"GREY", "BLACK"}
    THEN [ret |-> "none", marks |-> ms, output |-> out]
    ELSE IF id \in project_dangling \/ id \in project_incompatible
    THEN [ret |-> "none", marks |-> [ms EXCEPT ![id] = "BLACK"],
          output |-> Append(out, id)]
    ELSE [ret |-> "descend", marks |-> [ms EXCEPT ![id] = "GREY"],
          output |-> out]

\* Variant of the entry of visit that marks a dangling or incompatible
\* project BLACK without putting it into the output.
VisitEntry_LeafOmitted(ms, out, id) ==
    IF ms[id] = "GREY" THEN [ret |-> "cycle", marks |-> ms, output |-> out]
    ELSE IF ms[id] = "BLACK" THEN [ret |-> "none", marks |-> ms, output |-> out]
    ELSE IF id \in project_dangling \/ id \in project_incompatible
    THEN [ret |-> "none", marks |-> [ms EXCEPT ![id] = "BLACK"],
          output |-> out]
    ELSE [ret |-> "descend", marks |-> [ms EXCEPT ![id] = "GREY"],
          output |-> out]

\* visit, lines 239-248: what the entry of visit(id) does.
VisitEntry(ms, out, id) ==
    IF ms[id] = "GREY" THEN [ret |-> "cycle", marks |-> ms, output |-> out]
    ELSE IF ms[id] = "BLACK" THEN [ret |-> "none", marks |-> ms, output |-> out]
    ELSE IF id \in project_dangling \/ id \in project_incompatible
    THEN [ret |-> "none", marks |-> [ms EXCEPT ![id] = "BLACK"],
          output |-> Append(out, id)]
    ELSE [ret |-> "descend", marks |-> [ms EXCEPT ![id] = "GREY"],
          output |-> out]

\* The project ids of the frames, innermost first.
FrameIds(stack) == [i \in 1..Len(stack) |-> stack[Len(stack) + 1 - i].id]

\* Lines 241, 253, 262: the list a cycle found at `id` grows into while the
\* frames return, the for loop over the roots appending its root last.
CycleList(id, stack, root) == (<<id>> \o FrameIds(stack)) \o <<root>>

\* ---------------------------------------------------------------- history
NoFile == [kind |-> "none", refs |-> {}, out |-> NoOutput]
NoReentry == [id |-> 0, result |-> NoResult]

EntryClass(id) ==
    IF id \in DOMAIN project_complete THEN "Ok"
    ELSE IF id \in project_dangling THEN "Dangling"
    ELSE IF id \in project_incompatible THEN "Incompatible"
    ELSE IF id \in project_loading THEN "Cycle"
    ELSE "None"

HistInit ==
    [first_ok |-> [p \in ProjectIds |-> NoProject],  \* first Ok project per id
     ok_parses |-> [p \in ProjectIds |-> 0],  \* parse_count at that first Ok
     first_kind |-> [p \in ProjectIds |-> "None"],  \* first classification
     entry |-> "None",      \* what the caches held at the last load's entry
     observed |-> NoFile,   \* the file Project.load found in the last load
     parsed |-> FALSE,      \* the last load attempted a parse
     raised |-> {},         \* ids one of whose loads raised
     nloads |-> 0,          \* registry loads returned so far: 0, 1, 2 = more
     seed |-> 0,            \* the seed of the last ProjectSet.add
     add |-> "none",        \* that call: "running", "returned", "raised"
     reentry |-> NoReentry] \* the load call made during the load in progress

HistReturn(h, id, res, file, parsed, parses) ==
    [h EXCEPT !.first_ok[id] =
                  IF res.kind = "Ok" /\ @ = NoProject THEN res.project ELSE @,
              !.ok_parses[id] =
                  IF res.kind = "Ok" /\ h.first_ok[id] = NoProject
                  THEN parses ELSE @,
              !.first_kind[id] =
                  IF res.kind \in {"Ok", "Dangling", "Incompatible"} /\ @ = "None"
                  THEN res.kind ELSE @,
              !.observed = file,
              !.parsed = parsed,
              !.raised = IF res.kind = "Raised" THEN @ \cup {id} ELSE @,
              !.nloads = IF @ < 2 THEN @ + 1 ELSE @]

\* ---------------------------------------------------------------- actions
\* ProjectRegistry.__init__: empty caches.
RegistryInit ==
    /\ project_complete = EmptyMap
    /\ project_dangling = {}
    /\ project_incompatible = {}
    /\ project_loading = {}

\* ProjectSet.__init__: empty collections.
SetInit ==
    /\ project_cyclic = {}
    /\ project_parents = EmptyMap
    /\ projects_by_output = EmptyMap
    /\ outputs_by_project = EmptyMap
    /\ projects_sans_output = {}
    /\ duplicate_outputs = EmptyMap

\* No call is running.
CallInit ==
    /\ fs_changes = 0
    /\ project_ids = <<>>
    /\ pc = "idle"
    /\ project_id = 0
    /\ result = NoResult
    /\ next_oid = 1
    /\ parse_count = [p \in ProjectIds |-> 0]
    /\ hist = HistInit

\* No solution.
SolutionIdle ==
    /\ project_roots = {}
    /\ ts_pc = "idle"
    /\ marks = [p \in ProjectIds |-> "WHITE"]
    /\ output = <<>>
    /\ root_ids = <<>>
    /\ visit_stack = <<>>
    /\ topsort_result = NoTopsort

\* No property evaluation.
PropsIdle ==
    /\ registry_config = NoConfig
    /\ props_pc = "seed"
    /\ props = NoProps
    /\ prop_groups = <<>>
    /\ prop_trace = <<>>

\* No parse_condition call.
CondIdle ==
    /\ text = <<>>
    /\ configuration = None
    /\ platform = None
    /\ condition = Pending

\* No scan of a solution.
ScanIdle ==
    /\ project_ref_ids = EmptyMap
    /\ scan_pc = "idle"
    /\ scan_todo = {}
    /\ guid_map = EmptyMap
    /\ duplicated_guids = EmptyMap
    /\ project_undeclared = EmptyMap

NoBuild == [kind |-> "none", path |-> <<>>]

\* No compute_build_order call.
BuildIdle ==
    /\ build_pc = "idle"
    /\ build_todo = <<>>
    /\ build_pick = EmptyMap
    /\ build_order = <<>>
    /\ build_complete = {}
    /\ build_result = NoBuild

\* No output derivation.
DeriveIdle ==
    /\ project_props = EmptyMap
    /\ project_output = EmptyMap

\* No assembly or source reference anywhere.
DanglingIdle ==
    /\ disk = {}
    /\ project_assembly_refs = EmptyMap
    /\ project_source_refs = EmptyMap
    /\ assembly_dangling = EmptyMap
    /\ source_dangling = EmptyMap

\* No seed recorded.
SeedsIdle == added_seeds = {}

ExtraIdle == ScanIdle /\ BuildIdle /\ DeriveIdle /\ DanglingIdle /\ SeedsIdle

\* ProjectSet.__init__ (with its ProjectRegistry) over any file system.
Init ==
    /\ fs \in [ProjectIds -> FileStates]
    /\ RegistryInit /\ SetInit /\ CallInit
    /\ SolutionIdle /\ PropsIdle /\ CondIdle /\ ExtraIdle

\* ProjectRegistry.__init__ over any file system.
InitRegistry ==
    /\ fs \in [ProjectIds -> RegistryFiles]
    /\ RegistryInit /\ SetInit /\ CallInit
    /\ SolutionIdle /\ PropsIdle /\ CondIdle /\ ExtraIdle

\* The environment edits one file (creates, deletes or rewrites it).
FsChange(p, file) ==
    /\ fs_changes < MaxFsChanges
    /\ file # fs[p]
    /\ fs' = [fs EXCEPT ![p] = file]
    /\ fs_changes' = fs_changes + 1
    /\ UNCHANGED <<registry_vars, set_vars, call_vars>>
    /\ UNCHANGED other_vars

\* ProjectRegistry.load(id), lines 29-40: answer from the caches, or enter the
\* loading set and go on to Project.load.
LoadCall(id) ==
    /\ pc = "idle"
    /\ parse_count[id] < MaxParses
    /\ project_id' = id
    /\ LET cached == LoadCached(project_complete, project_dangling,
                                project_incompatible, project_loading, id)
       IN  IF cached # NoResult
           THEN /\ result' = cached
                /\ pc' = "idle"
                /\ hist' = [HistReturn(hist, id, cached, NoFile, FALSE,
                                       parse_count[id])
                                EXCEPT !.entry = EntryClass(id)]
                /\ UNCHANGED project_loading
           ELSE /\ result' = NoResult
                /\ pc' = "loading"
                /\ hist' = [hist EXCEPT !.entry = EntryClass(id)]
                /\ project_loading' = project_loading \cup {id}
    /\ UNCHANGED <<fs, fs_changes, project_complete, project_dangling,
                   project_incompatible, set_vars, project_ids, next_oid,
                   parse_count>>
    /\ UNCHANGED other_vars

\* ProjectRegistry.load, lines 42-61: Project.load, the `finally`, the match.
LoadBody ==
    LET loaded == ProjectLoad(fs[project_id], project_id, next_oid)
        match == LoadMatch(project_complete, project_dangling,
                           project_incompatible, project_id, loaded.result)
    IN  /\ project_loading' =
               LoadFinally(project_loading, project_id, loaded.result)
        /\ project_complete' = match.complete
        /\ project_dangling' = match.dangling
        /\ project_incompatible' = match.incompatible
        /\ result' = match.result
        /\ next_oid' = IF loaded.parsed THEN next_oid + 1 ELSE next_oid
        /\ parse_count' = [parse_count EXCEPT ![project_id] =
                               IF loaded.parsed THEN @ + 1 ELSE @]
        /\ hist' = [HistReturn(hist, project_id, match.result,
                               fs[project_id], loaded.parsed,
                               parse_count'[project_id])
                        EXCEPT !.add = IF match.result.kind = "Raised"
                                       THEN "raised" ELSE @,
                               !.reentry = NoReentry]

LoadReturn ==
    /\ pc = "loading"
    /\ LoadBody
    /\ pc' = "idle"
    /\ UNCHANGED <<fs, fs_changes, set_vars, project_ids, project_id>>
    /\ UNCHANGED other_vars

\* ProjectRegistry.load(id), lines 29-61, called while another load of the
\* same registry is inside Project.load (by a loader that follows references
\* or by a second caller).  The whole call is one step; one such call is
\* followed per load in progress.
LoadReenter(id) ==
    /\ pc = "loading"
    /\ hist.reentry = NoReentry
    /\ parse_count[id] < MaxParses
    /\ LET cached == LoadCached(project_complete, project_dangling,
                                project_incompatible, project_loading, id)
           loaded == ProjectLoad(fs[id], id, next_oid)
           match == LoadMatch(project_complete, project_dangling,
                              project_incompatible, id, loaded.result)
           res == IF cached # NoResult THEN cached ELSE match.result
           parses == IF cached = NoResult /\ loaded.parsed
                     THEN parse_count[id] + 1 ELSE parse_count[id]
       IN  /\ IF cached # NoResult
              THEN UNCHANGED <<registry_vars, next_oid, parse_count>>
              ELSE /\ project_loading' =
                          LoadFinally(project_loading \cup {id}, id,
                                      loaded.result)
                   /\ project_complete' = match.complete
                   /\ project_dangling' = match.dangling
                   /\ project_incompatible' = match.incompatible
                   /\ next_oid' = IF loaded.parsed
                                  THEN next_oid + 1 ELSE next_oid
                   /\ parse_count' = [parse_count EXCEPT ![id] = parses]
           /\ hist' = [HistReturn(hist, id, res, NoFile, FALSE, parses)
                           EXCEPT !.observed = hist.observed,
                                  !.parsed = hist.parsed,
                                  !.nloads = hist.nloads,
                                  !.reentry = [id |-> id, result |-> res]]
    /\ UNCHANGED <<fs, fs_changes, set_vars, project_ids, pc, project_id,
                   result>>
    /\ UNCHANGED other_vars

\* ProjectSet.add(seed), line 44.  The client stops calling once some file
\* has been parsed MaxParses times.
AddCall(seed) ==
    /\ pc = "idle"
    /\ \A p \in ProjectIds : parse_count[p] < MaxParses
    /\ project_ids' = <<seed>>
    /\ pc' = "add_loop"
    /\ hist' = [hist EXCEPT !.seed = seed, !.add = "running"]
    /\ UNCHANGED <<fs, fs_changes, registry_vars, set_vars, project_id,
                   result, next_oid, parse_count>>
    /\ UNCHANGED other_vars

\* ProjectSet.add, lines 45-55: the loop test, the pop, the skip, and the
\* entry of registry.load.
AddPop ==
    /\ pc = "add_loop"
    /\ IF project_ids = <<>>
       THEN /\ pc' = "idle"
            /\ hist' = [hist EXCEPT !.add = "returned"]
            /\ UNCHANGED <<project_ids, project_id, result,
                           project_loading, project_cyclic>>
       ELSE LET id == project_ids[Len(project_ids)]
                cached == LoadCached(project_complete, project_dangling,
                                     project_incompatible, project_loading, id)
            IN  /\ project_ids' = SubSeq(project_ids, 1, Len(project_ids) - 1)
                /\ IF Classified(id)
                   THEN /\ pc' = "add_loop"
                        /\ UNCHANGED <<project_id, result, hist,
                                       project_loading, project_cyclic>>
                   ELSE /\ project_id' = id
                        /\ IF cached # NoResult
                           THEN \* only Cycle can come out of the caches here
                                /\ result' = cached
                                /\ pc' = "add_loop"
                                /\ hist' = [HistReturn(hist, id, cached,
                                                       NoFile, FALSE,
                                                       parse_count[id])
                                                EXCEPT !.entry = EntryClass(id)]
                                /\ project_cyclic' =
                                       AddCyclic(project_cyclic, id, cached)
                                /\ UNCHANGED project_loading
                           ELSE /\ result' = NoResult
                                /\ pc' = "loading"
                                /\ hist' = [hist EXCEPT !.entry = EntryClass(id)]
                                /\ project_loading' = project_loading \cup {id}
                                /\ UNCHANGED project_cyclic
    /\ UNCHANGED <<fs, fs_changes, project_complete, project_dangling,
                   project_incompatible, project_parents, projects_by_output,
                   outputs_by_project, projects_sans_output, duplicate_outputs,
                   next_oid, parse_count>>
    /\ UNCHANGED other_vars

\* ProjectSet.add, lines 55-83: registry.load returns and the match on its
\* result.  An exception raised by the parse leaves add.
AddLoaded ==
    /\ pc = "loading"
    /\ LoadBody
    /\ \E order \in Orders(result'.project.refs) :
         LET index == AddOutput(projects_by_output, outputs_by_project,
                                projects_sans_output, duplicate_outputs,
                                project_id, Output(result'.project))
         IN  CASE result'.kind = "Ok" ->
                    /\ project_parents' =
                           AddParents(project_parents, order, project_id)
                    /\ project_ids' = project_ids \o order
                    /\ projects_by_output' = index.by_output
                    /\ outputs_by_project' = index.by_project
                    /\ projects_sans_output' = index.sans_output
                    /\ duplicate_outputs' = index.duplicates
                    /\ pc' = "add_loop"
                    /\ UNCHANGED project_cyclic
               [] result'.kind = "Raised" ->
                    /\ project_ids' = <<>>
                    /\ pc' = "idle"
                    /\ UNCHANGED set_vars
               [] OTHER ->  \* Dangling, Incompatible: pass; Cycle: cyclic
                    /\ project_cyclic' =
                           AddCyclic(project_cyclic, project_id, result')
                    /\ pc' = "add_loop"
                    /\ UNCHANGED <<project_parents, projects_by_output,
                                   outputs_by_project, projects_sans_output,
                                   duplicate_outputs, project_ids>>
    /\ UNCHANGED <<fs, fs_changes, project_id>>
    /\ UNCHANGED other_vars

Next ==
    \/ \E seed \in ProjectIds : AddCall(seed)
    \/ AddPop
    \/ AddLoaded

Spec == Init /\ [][Next]_vars

\* ProjectSet.add is sequential code: a call that has been entered goes on
\* executing its loop.
SpecFair == Spec /\ WF_vars(AddPop) /\ WF_vars(AddLoaded)

NextRegistry ==
    \/ \E id \in ProjectIds : LoadCall(id)
    \/ LoadReturn
    \/ \E p \in ProjectIds, file \in RegistryFiles : FsChange(p, file)

SpecRegistry == InitRegistry /\ [][NextRegistry]_vars

\* The registry under callers that re-enter load.
NextReentrant ==
    \/ \E id \in ProjectIds : LoadCall(id)
    \/ LoadReturn
    \/ \E id \in ProjectIds : LoadReenter(id)
    \/ \E p \in ProjectIds, file \in RegistryFiles : FsChange(p, file)

SpecReentrant == InitRegistry /\ [][NextReentrant]_vars

\* --------------------------------------------------- Solution.topsort
\* Solution.__init__: the roots are read, and _load_projects has classified
\* every id reachable from them.
InitSolution ==
    /\ fs \in [ProjectIds -> SolutionFiles]
    /\ project_roots \in SUBSET ProjectIds
    /\ LET reach == Reachable(fs, project_roots)
           loaded == {p \in reach : fs[p].kind = "project"}
       IN  /\ project_complete =
                  [p \in loaded |-> [oid |-> p, id |-> p,
                                     refs |-> fs[p].refs, out |-> NoOutput]]
           /\ project_dangling = {p \in reach : fs[p].kind = "missing"}
           /\ project_parents =
                  [c \in UNION {fs[p].refs : p \in loaded} |->
                      {p \in loaded : c \in fs[p].refs}]
    /\ project_incompatible = {}
    /\ project_loading = {}
    /\ project_cyclic = {}
    /\ projects_by_output = EmptyMap
    /\ outputs_by_project = EmptyMap
    /\ projects_sans_output = {}
    /\ duplicate_outputs = EmptyMap
    /\ CallInit
    /\ ts_pc = "idle"
    /\ marks = [p \in ProjectIds |-> "WHITE"]
    /\ output = <<>>
    /\ root_ids = <<>>
    /\ visit_stack = <<>>
    /\ topsort_result = NoTopsort
    /\ PropsIdle /\ CondIdle /\ ExtraIdle

solution_frame == <<fs, fs_changes, registry_vars, set_vars, call_vars,
                    project_roots, props_vars, cond_vars, extra_vars>>

\* Solution.topsort, lines 231-236 and the iterator of line 259.
TopsortCall(order) ==
    /\ ts_pc = "idle"
    /\ ts_pc' = "roots"
    /\ marks' = [p \in ProjectIds |-> "WHITE"]
    /\ output' = <<>>
    /\ root_ids' = order
    /\ visit_stack' = <<>>
    /\ UNCHANGED topsort_result
    /\ UNCHANGED solution_frame

\* Lines 259-264: the for loop calls visit on the next root.
VisitRoot ==
    /\ ts_pc = "roots"
    /\ visit_stack = <<>>
    /\ root_ids # <<>>
    /\ LET id == Head(root_ids)
           entry == VisitEntry(marks, output, id)
       IN  /\ marks' = entry.marks
           /\ output' = entry.output
           /\ CASE entry.ret = "descend" ->
                    /\ \E todo \in Orders(project_complete[id].refs) :
                          visit_stack' = <<[id |-> id, todo |-> todo]>>
                    /\ UNCHANGED <<root_ids, ts_pc, topsort_result>>
                [] entry.ret = "none" ->
                    /\ root_ids' = Tail(root_ids)
                    /\ UNCHANGED <<visit_stack, ts_pc, topsort_result>>
                [] OTHER ->
                    /\ topsort_result' =
                          [ok |-> FALSE,
                           order |-> Reverse(CycleList(id, <<>>, id))]
                    /\ ts_pc' = "done"
                    /\ UNCHANGED <<visit_stack, root_ids>>
    /\ UNCHANGED solution_frame

\* Lines 250-251: the innermost frame calls visit on its next reference, which
\* returns None or descends.
VisitChild ==
    /\ ts_pc = "roots"
    /\ visit_stack # <<>>
    /\ LET n == Len(visit_stack)
           frame == visit_stack[n]
       IN  /\ frame.todo # <<>>
           /\ LET id == Head(frame.todo)
                  entry == VisitEntry(marks, output, id)
                  rest == [visit_stack EXCEPT ![n].todo = Tail(frame.todo)]
              IN  /\ entry.ret # "cycle"
                  /\ marks' = entry.marks
                  /\ output' = entry.output
                  /\ IF entry.ret = "descend"
                     THEN \E todo \in Orders(project_complete[id].refs) :
                            visit_stack' =
                                Append(rest, [id |-> id, todo |-> todo])
                     ELSE visit_stack' = rest
    /\ UNCHANGED <<ts_pc, root_ids, topsort_result>>
    /\ UNCHANGED solution_frame

\* Lines 241, 252-254, 261-264: the next reference of the innermost frame is
\* GREY; every frame appends its id and returns, the for loop appends the
\* root, reverses and returns (False, result).
VisitCycle ==
    /\ ts_pc = "roots"
    /\ visit_stack # <<>>
    /\ LET frame == visit_stack[Len(visit_stack)]
       IN  /\ frame.todo # <<>>
           /\ VisitEntry(marks, output, Head(frame.todo)).ret = "cycle"
           /\ topsort_result' =
                  [ok |-> FALSE,
                   order |-> Reverse(CycleList(Head(frame.todo), visit_stack,
                                               Head(root_ids)))]
    /\ ts_pc' = "done"
    /\ visit_stack' = <<>>
    /\ UNCHANGED <<marks, output, root_ids>>
    /\ UNCHANGED solution_frame

\* Lines 255-257: the innermost frame has visited all its references.
VisitReturn ==
    /\ ts_pc = "roots"
    /\ visit_stack # <<>>
    /\ LET n == Len(visit_stack)
           frame == visit_stack[n]
       IN  /\ frame.todo = <<>>
           /\ marks' = [marks EXCEPT ![frame.id] = "BLACK"]
           /\ output' = Append(output, frame.id)
           /\ visit_stack' = SubSeq(visit_stack, 1, n - 1)
           /\ root_ids' = IF n = 1 THEN Tail(root_ids) ELSE root_ids
    /\ UNCHANGED <<ts_pc, topsort_result>>
    /\ UNCHANGED solution_frame

\* Lines 266-267: every root is visited.
TopsortReturn ==
    /\ ts_pc = "roots"
    /\ visit_stack = <<>>
    /\ root_ids = <<>>
    /\ topsort_result' = [ok |-> TRUE, order |-> Reverse(output)]
    /\ ts_pc' = "done"
    /\ UNCHANGED <<marks, output, root_ids, visit_stack>>
    /\ UNCHANGED solution_frame

NextSolution ==
    \/ \E order \in Orders(project_roots) : TopsortCall(order)
    \/ VisitRoot
    \/ VisitChild
    \/ VisitCycle
    \/ VisitReturn
    \/ TopsortReturn

SpecSolution == InitSolution /\ [][NextSolution]_vars

\* ------------------------------------------------- Project._load_props
\* A Project whose registry holds any configuration.
InitProps ==
    /\ fs = [p \in ProjectIds |-> Missing]
    /\ RegistryInit /\ SetInit /\ CallInit /\ SolutionIdle /\ CondIdle
    /\ ExtraIdle
    /\ registry_config \in RegistryConfigs
    /\ props_pc = "seed"
    /\ props = NoProps
    /\ prop_groups = <<>>
    /\ prop_trace = <<>>

props_frame == <<fs, fs_changes, registry_vars, set_vars, call_vars,
                 solution_vars, cond_vars, extra_vars, registry_config>>

\* Lines 390-394: the registry's configuration seeds the table.
LoadPropsSeed ==
    /\ props_pc = "seed"
    /\ props' = [n \in PropNames |->
                    IF n \in DOMAIN registry_config
                    THEN registry_config[n] ELSE Absent]
    /\ props_pc' = "groups"
    /\ UNCHANGED <<prop_groups, prop_trace>>
    /\ UNCHANGED props_frame

\* Lines 396-417: the loop body on the next PropertyGroup of the document.
LoadPropsGroup(prop_group) ==
    /\ props_pc = "groups"
    /\ Len(prop_groups) < MaxGroups
    /\ props' = LoadPropGroup(props, prop_group)
    /\ prop_groups' = Append(prop_groups, prop_group)
    /\ prop_trace' = Append(prop_trace,
                            [before |-> props,
                             matched |-> match_condition(prop_group, props)])
    /\ UNCHANGED props_pc
    /\ UNCHANGED props_frame

NextProps ==
    \/ LoadPropsSeed
    \/ \E prop_group \in PropertyGroups : LoadPropsGroup(prop_group)

SpecProps == InitProps /\ [][NextProps]_vars

\* ------------------------------------------------------ parse_condition
\* Any call parse_condition(text, configuration, platform).
InitCond ==
    /\ fs = [p \in ProjectIds |-> Missing]
    /\ RegistryInit /\ SetInit /\ CallInit /\ SolutionIdle /\ PropsIdle
    /\ ExtraIdle
    /\ text \in Texts
    /\ configuration \in {None, "Retail"}
    /\ platform \in {None, "AnyCPU"}
    /\ condition = Pending

ParseCondition ==
    /\ condition = Pending
    /\ condition' = parse_condition(text, configuration, platform)
    /\ UNCHANGED <<text, configuration, platform>>
    /\ UNCHANGED <<fs, fs_changes, registry_vars, set_vars, call_vars,
                   solution_vars, props_vars, extra_vars>>

NextCond == ParseCondition

SpecCond == InitCond /\ [][NextCond]_vars

\* ------------------------------------------------ Solution._scan_projects
Guids == 1..NumGuids

\* The ProjectReference elements of the files of a solution, each as
\* <<declaring project, referenced ProjectId, Guid>>.
RefDeclarations ==
    {r \in SUBSET (ProjectIds \X ProjectIds \X Guids) :
        Cardinality(r) <= MaxRefGuids}

\* What _load_project_refs leaves in _project_ref_ids of project p: the
\* <<ProjectId, Guid>> pairs of the ProjectReference elements of its file.
RefGuids(decl, p) == {<<t[2], t[3]>> : t \in {x \in decl : x[1] = p}}

\* Project.project_refs(): the keys of _project_ref_ids.
ProjectRefs(pairs) == {pr[1] : pr \in pairs}

\* Variant of lines 275-282 that records only the id at hand.
ScanGuid_OmitFirst(map, duplicated, subproject_id, guid) ==
    IF guid \in DOMAIN map
    THEN [guid_map |-> map,
          duplicated |-> IF map[guid] # subproject_id
                         THEN MultiMapAdd(duplicated, guid, subproject_id)
                         ELSE duplicated]
    ELSE [guid_map |-> Put(map, guid, subproject_id),
          duplicated |-> duplicated]

\* Lines 275-282: one guid of one reference against guid_map.
ScanGuid(map, duplicated, subproject_id, guid) ==
    IF guid \in DOMAIN map
    THEN [guid_map |-> map,
          duplicated |-> IF map[guid] # subproject_id
                         THEN MultiMapAdd(MultiMapAdd(duplicated, guid,
                                                      map[guid]),
                                          guid, subproject_id)
                         ELSE duplicated]
    ELSE [guid_map |-> Put(map, guid, subproject_id),
          duplicated |-> duplicated]

RECURSIVE ScanRefs(_, _, _)
\* Lines 272-282: the references of one project, in iteration order.
ScanRefs(map, duplicated, order) ==
    IF order = <<>> THEN [guid_map |-> map, duplicated |-> duplicated]
    ELSE LET step == ScanGuid(map, duplicated, order[1][1], order[1][2])
         IN  ScanRefs(step.guid_map, step.duplicated, Tail(order))

\* Lines 273-274: the references of project_id the solution does not declare.
ScanUndeclared(undeclared, roots, id, pairs) ==
    LET subs == ProjectRefs(pairs) \ roots
    IN  IF subs = {} THEN undeclared
        ELSE [x \in DOMAIN undeclared \cup {id} |->
                 IF x = id
                 THEN (IF id \in DOMAIN undeclared THEN undeclared[id] ELSE {})
                          \cup subs
                 ELSE undeclared[x]]

\* Solution.__init__ up to _load_projects: the roots are read and every
\* project reachable from them is complete (every file exists and parses;
\* no document names an assembly or a source file).
InitScan ==
    /\ fs = [p \in ProjectIds |->
                [kind |-> "project", refs |-> {}, out |-> NoOutput]]
    /\ project_roots \in SUBSET ProjectIds
    /\ \E decl \in RefDeclarations :
         LET refs(p) == ProjectRefs(RefGuids(decl, p))
             files == [p \in ProjectIds |-> [refs |-> refs(p)]]
             reach == Reachable(files, project_roots)
         IN  /\ project_ref_ids = [p \in reach |-> RefGuids(decl, p)]
             /\ project_complete =
                    [p \in reach |-> [oid |-> p, id |-> p,
                                      refs |-> refs(p), out |-> NoOutput]]
             /\ project_parents =
                    [c \in UNION {refs(p) : p \in reach} |->
                        {p \in reach : c \in refs(p)}]
    /\ project_dangling = {}
    /\ project_incompatible = {}
    /\ project_loading = {}
    /\ project_cyclic = {}
    /\ projects_by_output = EmptyMap
    /\ outputs_by_project = EmptyMap
    /\ projects_sans_output = {}
    /\ duplicate_outputs = EmptyMap
    /\ CallInit
    /\ ts_pc = "idle"
    /\ marks = [p \in ProjectIds |-> "WHITE"]
    /\ output = <<>>
    /\ root_ids = <<>>
    /\ visit_stack = <<>>
    /\ topsort_result = NoTopsort
    /\ PropsIdle /\ CondIdle /\ BuildIdle /\ DeriveIdle
    /\ DanglingIdle /\ SeedsIdle
    /\ scan_pc = "idle"
    /\ scan_todo = {}
    /\ guid_map = EmptyMap
    /\ duplicated_guids = EmptyMap
    /\ project_undeclared = EmptyMap

scan_frame == <<fs, fs_changes, registry_vars, set_vars, call_vars,
                solution_vars, props_vars, cond_vars, project_ref_ids,
                build_vars, derive_vars, dangling_vars, seed_vars>>

\* _scan_projects, line 270.
ScanCall ==
    /\ scan_pc = "idle"
    /\ scan_pc' = "scan"
    /\ scan_todo' = DOMAIN project_complete
    /\ guid_map' = EmptyMap
    /\ UNCHANGED <<duplicated_guids, project_undeclared>>
    /\ UNCHANGED scan_frame

\* Lines 271-289: the loop body for one complete project, its references
\* taken in any iteration order.
ScanProject(id, order) ==
    /\ scan_pc = "scan"
    /\ id \in scan_todo
    /\ LET scanned == ScanRefs(guid_map, duplicated_guids, order)
       IN  /\ guid_map' = scanned.guid_map
           /\ duplicated_guids' = scanned.duplicated
    /\ project_undeclared' =
           ScanUndeclared(project_undeclared, project_roots, id,
                          project_ref_ids[id])
    /\ scan_todo' = scan_todo \ {id}
    /\ UNCHANGED scan_pc
    /\ UNCHANGED scan_frame

\* The loop of line 271 is exhausted.
ScanReturn ==
    /\ scan_pc = "scan"
    /\ scan_todo = {}
    /\ scan_pc' = "done"
    /\ UNCHANGED <<scan_todo, guid_map, duplicated_guids, project_undeclared>>
    /\ UNCHANGED scan_frame

NextScan ==
    \/ ScanCall
    \/ \E id \in ProjectIds :
         \E order \in Orders(IF id \in DOMAIN project_ref_ids
                             THEN project_ref_ids[id] ELSE {}) :
            ScanProject(id, order)
    \/ ScanReturn

SpecScan == InitScan /\ [][NextScan]_vars

\* ------------------------------------- scan_deps: compute_build_order
\* The name of an output identity (AssemblyId.name): identities differing
\* only in their path share it.
AssemblyName(assembly) == (assembly + 1) \div 2
AssemblyNames == {AssemblyName(a) : a \in AssemblyIds}

\* Project files that also name the assemblies they reference.
BuildFiles ==
    [kind : {"project"}, refs : RefSets, out : AssemblyIds \cup {NoOutput},
     asm : SUBSET AssemblyNames]

\* A set as the list of its elements in ascending order.
RECURSIVE Ascending(_)
Ascending(S) ==
    IF S = {} THEN <<>>
    ELSE LET least == CHOOSE x \in S : \A y \in S : x <= y
         IN  <<least>> \o Ascending(S \ {least})

\* Lines 44-46: the producers of each output name.
ProjectsByOutputName(by_output) ==
    [n \in {AssemblyName(a) : a \in DOMAIN by_output} |->
        {by_output[a] : a \in {b \in DOMAIN by_output : AssemblyName(b) = n}}]

\* Lines 70 and 77-84: the ids visit recurses on for one project, the project
\* references first, then the picked producer of every assembly reference
\* whose name some project produces.
Dependencies(project, pick) ==
    Ascending(project.refs) \o
        [i \in 1..Cardinality(project.asm \cap DOMAIN pick) |->
            pick[Ascending(project.asm \cap DOMAIN pick)[i]]]

\* Lines 52-54.
mark_complete(st, id) ==
    [st EXCEPT !.complete = @ \cup {id}, !.build_order = Append(@, id)]

RECURSIVE visit(_, _, _, _, _)
RECURSIVE visit_each(_, _, _, _, _)
\* Lines 56-93.  st holds complete, build_order and the cycle list (empty
\* for None); scanning is restored by the `finally` when the frame is left.
visit(projects, pick, st, scanning, id) ==
    IF id \in st.complete THEN st
    ELSE IF id \in scanning THEN [st EXCEPT !.cycle = <<id>>]
    ELSE IF id \in DOMAIN projects
    THEN LET after == visit_each(projects, pick, st, scanning \cup {id},
                                 Dependencies(projects[id], pick))
         IN  IF after.cycle # <<>>
             THEN [after EXCEPT !.cycle = Append(@, id)]
             ELSE mark_complete(after, id)
    ELSE mark_complete(st, id)

\* The two for loops of lines 70-87, left at the first cycle.
visit_each(projects, pick, st, scanning, ids) ==
    IF ids = <<>> THEN st
    ELSE LET after == visit(projects, pick, st, scanning, ids[1])
         IN  IF after.cycle # <<>> THEN after
             ELSE visit_each(projects, pick, after, scanning, Tail(ids))

\* A project set after add was called for every project file found
\* (scan_deps main, lines 112-116), no parse having raised.
InitBuild ==
    /\ fs \in [ProjectIds -> BuildFiles \cup {Missing}]
    /\ LET loaded == {p \in ProjectIds : fs[p].kind = "project"}
           producers(o) == {p \in loaded : fs[p].out = o}
           unique == {o \in AssemblyIds : Cardinality(producers(o)) = 1}
       IN  /\ project_complete =
                  [p \in loaded |-> [oid |-> p, id |-> p, refs |-> fs[p].refs,
                                     out |-> fs[p].out, asm |-> fs[p].asm]]
           /\ project_dangling =
                  UNION {fs[p].refs : p \in loaded} \ loaded
           /\ project_parents =
                  [c \in UNION {fs[p].refs : p \in loaded} |->
                      {p \in loaded : c \in fs[p].refs}]
           /\ projects_by_output =
                  [o \in unique |-> CHOOSE p \in producers(o) : TRUE]
           /\ outputs_by_project =
                  [p \in {q \in loaded : fs[q].out \in unique} |-> fs[p].out]
           /\ projects_sans_output = {p \in loaded : fs[p].out = NoOutput}
           /\ duplicate_outputs =
                  [o \in {a \in AssemblyIds : Cardinality(producers(a)) >= 2}
                      |-> producers(o)]
    /\ project_incompatible = {}
    /\ project_loading = {}
    /\ project_cyclic = {}
    /\ CallInit
    /\ SolutionIdle /\ PropsIdle /\ CondIdle /\ ScanIdle /\ BuildIdle
    /\ DeriveIdle /\ DanglingIdle /\ SeedsIdle

build_frame == <<fs, fs_changes, registry_vars, set_vars, call_vars,
                 solution_vars, props_vars, cond_vars, scan_vars,
                 derive_vars, dangling_vars, seed_vars>>

\* compute_build_order, lines 42-50 and the iterator of line 95.  The
\* accessor projects_by_output() is taken to return the index add maintains.
BuildCall(order) ==
    /\ build_pc = "idle"
    /\ build_pc' = "visit"
    /\ build_todo' = order
    /\ build_pick' \in
           {f \in [DOMAIN ProjectsByOutputName(projects_by_output) ->
                      ProjectIds] :
               \A n \in DOMAIN f :
                   f[n] \in ProjectsByOutputName(projects_by_output)[n]}
    /\ build_order' = <<>>
    /\ build_complete' = {}
    /\ UNCHANGED build_result
    /\ UNCHANGED build_frame

\* Lines 95-100: one round of the for loop, visit included.
BuildVisit ==
    /\ build_pc = "visit"
    /\ build_todo # <<>>
    /\ LET st == visit(project_complete, build_pick,
                       [complete |-> build_complete,
                        build_order |-> build_order, cycle |-> <<>>],
                       {}, Head(build_todo))
       IN  /\ build_complete' = st.complete
           /\ build_order' = st.build_order
           /\ IF st.cycle # <<>>
              THEN /\ build_result' =
                          [kind |-> "RuntimeError", path |-> st.cycle]
                   /\ build_pc' = "done"
                   /\ build_todo' = <<>>
              ELSE /\ build_todo' = Tail(build_todo)
                   /\ UNCHANGED <<build_result, build_pc>>
    /\ UNCHANGED build_pick
    /\ UNCHANGED build_frame

\* Lines 102-103: the loop is exhausted and `result`, which holds the None
\* of the last visit (or nothing at all when there is no project), is
\* reversed and returned: the call ends in an exception.
BuildReturn ==
    /\ build_pc = "visit"
    /\ build_todo = <<>>
    /\ build_pc' = "done"
    /\ build_result' =
           [kind |-> IF DOMAIN project_complete = {}
                     THEN "UnboundLocalError" ELSE "AttributeError",
            path |-> <<>>]
    /\ UNCHANGED <<build_todo, build_pick, build_order, build_complete>>
    /\ UNCHANGED build_frame

NextBuild ==
    \/ \E order \in Orders(DOMAIN project_complete) : BuildCall(order)
    \/ BuildVisit
    \/ BuildReturn

SpecBuild == InitBuild /\ [][NextBuild]_vars

\* ----------------------------------------------------- output derivation
\* The properties the derivation reads, and the texts a document gives them.
OutputProps == {"AssemblyName", "OutputPath", "OutputType"}
AssemblyNameTexts == {"App", "Lib"}
OutputPathTexts == {"bin"}
OutputTypeTexts == {"Exe", "WinExe", "Library", "library", "Custom"}
OutputTables ==
    {t \in [OutputProps -> AssemblyNameTexts \cup OutputPathTexts
                              \cup OutputTypeTexts \cup {Absent}] :
        /\ t["AssemblyName"] \in AssemblyNameTexts \cup {Absent}
        /\ t["OutputPath"] \in OutputPathTexts \cup {Absent}
        /\ t["OutputType"] \in OutputTypeTexts \cup {Absent}}

\* str.upper() on the texts of OutputType.
Upper(value) ==
    CASE value = "Exe" -> "EXE"
      [] value = "WinExe" -> "WINEXE"
      [] value \in {"Library", "library"} -> "LIBRARY"
      [] value = "Custom" -> "CUSTOM"
      [] OTHER -> value

\* Variant of OutputType.from_string that does not know WinExe.
OutputType_from_string_NoWinExe(value) ==
    CASE Upper(value) = "EXE" -> "EXE"
      [] Upper(value) = "LIBRARY" -> "LIB"
      [] OTHER -> "KeyError"

\* OutputType.from_string (const.py): the member, or the KeyError raised.
OutputType_from_string(value) ==
    CASE Upper(value) \in {"EXE", "WINEXE"} -> "EXE"
      [] Upper(value) = "LIBRARY" -> "LIB"
      [] OTHER -> "KeyError"

\* OutputType.to_extension (const.py).
to_extension(member) == IF member = "EXE" THEN "exe" ELSE "dll"

NoDerived == [name |-> Absent, ext |-> Absent, dir |-> Absent]

\* Project.output(): the output derived from the property table, NoDerived
\* for None.  An OutputType that from_string rejects derives nothing.
DeriveOutput(table) ==
    IF \E n \in OutputProps : table[n] = Absent THEN NoDerived
    ELSE IF OutputType_from_string(table["OutputType"]) = "KeyError"
    THEN NoDerived
    ELSE [name |-> table["AssemblyName"],
          ext |-> to_extension(OutputType_from_string(table["OutputType"])),
          dir |-> table["OutputPath"]]

\* The AssemblyId of a derived output: identities are equal exactly when
\* name and path (directory, name and extension) are.
OutputIdentity(derived) ==
    IF derived = NoDerived THEN NoOutput
    ELSE 1 + (IF derived.name = "App" THEN 0 ELSE 2)
           + (IF derived.ext = "exe" THEN 0 ELSE 1)

\* A fresh ProjectSet.
InitOutput ==
    /\ fs = [p \in ProjectIds |->
                [kind |-> "project", refs |-> {}, out |-> NoOutput]]
    /\ RegistryInit /\ SetInit /\ CallInit
    /\ SolutionIdle /\ PropsIdle /\ CondIdle /\ ScanIdle /\ BuildIdle
    /\ DeriveIdle /\ DanglingIdle /\ SeedsIdle

\* ProjectSet.add of a project file without references: registry.load
\* returns Ok with the property table the parse produced, and lines 67-79
\* index the output derived from it.
AddDerived(id, table) ==
    /\ id \notin DOMAIN project_complete
    /\ project_props' = Put(project_props, id, table)
    /\ project_output' = Put(project_output, id, DeriveOutput(table))
    /\ project_complete' =
           Put(project_complete, id,
               [oid |-> next_oid, id |-> id, refs |-> {},
                out |-> OutputIdentity(DeriveOutput(table))])
    /\ next_oid' = next_oid + 1
    /\ parse_count' = [parse_count EXCEPT ![id] = @ + 1]
    /\ LET index == AddOutput(projects_by_output, outputs_by_project,
                              projects_sans_output, duplicate_outputs, id,
                              OutputIdentity(DeriveOutput(table)))
       IN  /\ projects_by_output' = index.by_output
           /\ outputs_by_project' = index.by_project
           /\ projects_sans_output' = index.sans_output
           /\ duplicate_outputs' = index.duplicates
    /\ UNCHANGED <<fs, fs_changes, project_dangling, project_incompatible,
                   project_loading, project_cyclic, project_parents,
                   project_ids, pc, project_id, result, hist>>
    /\ UNCHANGED <<solution_vars, props_vars, cond_vars, scan_vars,
                   build_vars, dangling_vars, seed_vars>>

NextOutput == \E id \in ProjectIds, table \in OutputTables : AddDerived(id, table)

SpecOutput == InitOutput /\ [][NextOutput]_vars

\* ------------------------- ProjectSet: dangling assemblies and sources
NumPaths == 2             \* paths of referenced assemblies and source files
Paths == 1..NumPaths
NoPath == 0               \* AssemblyId.path being None

\* What the Reference and Compile elements of a file load as: AssemblyIds
\* (name, optional path) and SourceIds (one per path).
AssemblyRefs == [name : AssemblyNames, path : Paths \cup {NoPath}]
SourceRefs == [path : Paths]

\* ProjectSet.add, lines 60-66: the assembly references of the loaded project
\* that have a path which does not exist.
AddAssemblyDangling(dangling, exists, id, assemblies) ==
    LET missing == {a \in assemblies : a.path # NoPath /\ a.path \notin exists}
    IN  IF missing = {} THEN dangling
        ELSE [x \in DOMAIN dangling \cup {id} |->
                 IF x = id
                 THEN (IF id \in DOMAIN dangling THEN dangling[id] ELSE {})
                          \cup missing
                 ELSE dangling[x]]

\* A fresh ProjectSet over any set of existing paths.
InitDangling ==
    /\ fs = [p \in ProjectIds |->
                [kind |-> "project", refs |-> {}, out |-> NoOutput]]
    /\ RegistryInit /\ SetInit /\ CallInit
    /\ SolutionIdle /\ PropsIdle /\ CondIdle /\ ScanIdle /\ BuildIdle
    /\ DeriveIdle /\ SeedsIdle
    /\ disk \in SUBSET Paths
    /\ project_assembly_refs = EmptyMap
    /\ project_source_refs = EmptyMap
    /\ assembly_dangling = EmptyMap
    /\ source_dangling = EmptyMap

\* ProjectSet.add of a project file that declares no project reference and
\* derives no output: registry.load returns Ok with the assembly and source
\* references the parse recorded, lines 60-66 look at the assembly
\* references, lines 67-69 file the project as one without output.  No line
\* of add reads project.source_refs() or writes _source_dangling.
AddReferring(id, assemblies, sources) ==
    /\ id \notin DOMAIN project_complete
    /\ project_assembly_refs' = Put(project_assembly_refs, id, assemblies)
    /\ project_source_refs' = Put(project_source_refs, id, sources)
    /\ project_complete' =
           Put(project_complete, id,
               [oid |-> next_oid, id |-> id, refs |-> {}, out |-> NoOutput])
    /\ next_oid' = next_oid + 1
    /\ parse_count' = [parse_count EXCEPT ![id] = @ + 1]
    /\ assembly_dangling' =
           AddAssemblyDangling(assembly_dangling, disk, id, assemblies)
    /\ LET index == AddOutput(projects_by_output, outputs_by_project,
                              projects_sans_output, duplicate_outputs, id,
                              NoOutput)
       IN  /\ projects_by_output' = index.by_output
           /\ outputs_by_project' = index.by_project
           /\ projects_sans_output' = index.sans_output
           /\ duplicate_outputs' = index.duplicates
    /\ UNCHANGED <<fs, fs_changes, project_dangling, project_incompatible,
                   project_loading, project_cyclic, project_parents,
                   project_ids, pc, project_id, result, hist>>
    /\ UNCHANGED <<disk, source_dangling>>
    /\ UNCHANGED <<solution_vars, props_vars, cond_vars, scan_vars,
                   build_vars, derive_vars, seed_vars>>

NextDangling ==
    \E id \in ProjectIds, assemblies \in SUBSET AssemblyRefs,
       sources \in SUBSET SourceRefs :
        AddReferring(id, assemblies, sources)

SpecDangling == InitDangling /\ [][NextDangling]_vars

\* ------------------------------------- ProjectSet.add, the seeds recorded
\* ProjectSet.add(seed), line 44, called by a client that keeps the set of
\* the seeds it has passed.
AddSeed(seed) ==
    /\ pc = "idle"
    /\ \A p \in ProjectIds : parse_count[p] < MaxParses
    /\ project_ids' = <<seed>>
    /\ pc' = "add_loop"
    /\ hist' = [hist EXCEPT !.seed = seed, !.add = "running"]
    /\ added_seeds' = added_seeds \cup {seed}
    /\ UNCHANGED <<fs, fs_changes, registry_vars, set_vars, project_id,
                   result, next_oid, parse_count>>
    /\ UNCHANGED <<solution_vars, props_vars, cond_vars, scan_vars,
                   build_vars, derive_vars, dangling_vars>>

NextSeeds ==
    \/ \E seed \in ProjectIds : AddSeed(seed)
    \/ AddPop
    \/ AddLoaded

SpecSeeds == Init /\ [][NextSeeds]_vars

\* ================================================================= claims
\* A registry load has just returned (normally) to its caller.
LoadReturned == pc = "idle" /\ result.kind \notin {"None", "Raised"}

\* C1: once load(p) has returned Ok(project), the registry keeps that very
\* Project object for p, every later load(p) returns Ok with it, and the file
\* of p is parsed no more: the parse counter of p keeps the value it had at
\* that first Ok, which is 1 when no earlier load of p raised.
C1_LoadIdempotent ==
    \A p \in ProjectIds :
        hist.first_ok[p] # NoProject =>
            /\ p \in DOMAIN project_complete
            /\ project_complete[p] = hist.first_ok[p]
            /\ (LoadReturned /\ project_id = p) =>
                   result = ProjectLoadOk(hist.first_ok[p])
            /\ parse_count[p] = hist.ok_parses[p]
            /\ p \notin hist.raised => parse_count[p] = 1

\* A second load of an id returned Ok from the cache, after the file of that
\* id was edited.
C1_Witness ==
    /\ LoadReturned
    /\ hist.entry = "Ok"
    /\ result.kind = "Ok"
    /\ fs[project_id].kind # "project"
    /\ parse_count[project_id] = 1

\* C2: in every state reached by ProjectSet.add calls the sets complete,
\* dangling, incompatible and cyclic are pairwise disjoint.
C2_SetsDisjoint ==
    /\ DOMAIN project_complete \cap project_dangling = {}
    /\ DOMAIN project_complete \cap project_incompatible = {}
    /\ DOMAIN project_complete \cap project_cyclic = {}
    /\ project_dangling \cap project_incompatible = {}
    /\ project_dangling \cap project_cyclic = {}
    /\ project_incompatible \cap project_cyclic = {}

\* An add has classified ids both ways: some complete, some dangling.
C2_Witness ==
    /\ hist.add = "returned"
    /\ Cardinality(DOMAIN project_complete) >= 2
    /\ project_dangling # {}

\* C3: an id stays in the set of its first classification (complete, dangling
\* or incompatible) and in no other, and every later load of it returns the
\* result kind of that first classification, whatever the file system holds.
C3_ClassificationPermanent ==
    \A p \in ProjectIds :
        /\ hist.first_kind[p] = "Ok" <=> p \in DOMAIN project_complete
        /\ hist.first_kind[p] = "Dangling" <=> p \in project_dangling
        /\ hist.first_kind[p] = "Incompatible" <=> p \in project_incompatible
        /\ (hist.first_kind[p] # "None" /\ LoadReturned /\ project_id = p) =>
               result.kind = hist.first_kind[p]

\* A dangling id is loaded again after its file came into existence, and the
\* load returned.
C3_Witness ==
    /\ LoadReturned
    /\ hist.entry = "Dangling"
    /\ hist.nloads = 2
    /\ fs[project_id].kind = "project"

\* C4: for existing project files A and B that reference each other, the
\* first load on a fresh registry, of A, returns Cycle with a backtrace of
\* length 3 whose first and last elements are A.
C4_CycleSymmetry ==
    \A A, B \in ProjectIds :
        ( /\ A # B
          /\ fs[A].kind = "project" /\ B \in fs[A].refs
          /\ fs[B].kind = "project" /\ A \in fs[B].refs
          /\ hist.nloads = 1 /\ project_id = A /\ result.kind # "None" ) =>
            /\ result.kind = "Cycle"
            /\ Len(result.backtrace) = 3
            /\ result.backtrace[1] = A
            /\ result.backtrace[3] = A

\* C5: after ProjectSet.add(P) has returned, where the file of P is a project
\* declaring a reference to D and D has no file: P is complete, D is dangling
\* and D is among the references of P.
C5_DanglingPropagation ==
    \A P, D \in ProjectIds :
        ( /\ pc = "idle" /\ hist.add = "returned" /\ hist.seed = P
          /\ fs[P].kind = "project" /\ D \in fs[P].refs
          /\ fs[D].kind = "missing" ) =>
            /\ P \in DOMAIN project_complete
            /\ D \in project_dangling
            /\ D \in project_complete[P].refs

\* The declared references of the complete projects, as a file table.
CompleteRefs ==
    [p \in ProjectIds |->
        [refs |-> IF p \in DOMAIN project_complete
                  THEN project_complete[p].refs ELSE {}]]

\* No complete project reaches itself over declared references.
Acyclic ==
    \A p \in DOMAIN project_complete :
        p \notin Reachable(CompleteRefs, project_complete[p].refs)

\* C6: on a solution whose reference graph is acyclic, topsort returns
\* (True, order) and, for every complete project A and every B it references,
\* B stands at a strictly smaller index than A in order.
C6_TopologicalOrder ==
    (ts_pc = "done" /\ Acyclic) =>
        /\ topsort_result.ok
        /\ \A A \in DOMAIN project_complete :
             \A B \in project_complete[A].refs :
                \E i, j \in DOMAIN topsort_result.order :
                    /\ topsort_result.order[i] = B
                    /\ topsort_result.order[j] = A
                    /\ i < j

\* The complete projects whose derived output is o.
Deriving(o) == {p \in DOMAIN project_complete : Output(project_complete[p]) = o}

\* C7: when two or more complete projects of the set derive the same output o,
\* o is no key of projects_by_output, none of them is a key of
\* outputs_by_project, and all of them are in duplicate_outputs[o].
C7_DuplicateOutputs ==
    \A o \in AssemblyIds :
        Cardinality(Deriving(o)) >= 2 =>
            /\ o \notin DOMAIN projects_by_output
            /\ Deriving(o) \cap DOMAIN outputs_by_project = {}
            /\ o \in DOMAIN duplicate_outputs
            /\ Deriving(o) \subseteq duplicate_outputs[o]

\* A third project arrived at an output that two projects already shared.
C7_Witness ==
    \E o \in AssemblyIds :
        /\ Cardinality(Deriving(o)) >= 3
        /\ hist.add = "returned"

\* The table after group i was processed.
GroupAfter(i) ==
    IF i < Len(prop_trace) THEN prop_trace[i + 1].before ELSE props

\* Group g has a child element named n; the text of its last such child.
HasChild(g, n) == \E k \in DOMAIN g.children : g.children[k].tag = n
LastChildText(g, n) ==
    LET ks == {k \in DOMAIN g.children : g.children[k].tag = n}
        last == CHOOSE k \in ks : \A l \in ks : l <= k
    IN  g.children[last].text

\* Some child element named n carries a Condition of its own.
HasConditionedChild(n) ==
    \E i \in DOMAIN prop_groups :
        \E k \in DOMAIN prop_groups[i].children :
            /\ prop_groups[i].children[k].tag = n
            /\ prop_groups[i].children[k].cond.has

\* What the last matching group that assigns n assigned, else the seed.
LastAssignment(n) ==
    LET G == {i \in DOMAIN prop_groups :
                 prop_trace[i].matched /\ HasChild(prop_groups[i], n)}
        last == CHOOSE i \in G : \A j \in G : j <= i
    IN  IF G = {}
        THEN (IF n \in DOMAIN registry_config THEN registry_config[n] ELSE Absent)
        ELSE LastChildText(prop_groups[last], n)

\* C8: after property evaluation every property (none of whose assignments
\* carries a condition of its own) has the value assigned by the last group,
\* in document order, that matched when it was processed; an unconditioned
\* group matches, a group conditioned on configuration C matches exactly when
\* the table's Configuration is C at that moment, and a group that does not
\* match changes nothing.  The Foo / FooRelease document yields FooRelease
\* when Configuration=Release is seeded and Foo otherwise.
C8_LastMatchingGroupWins ==
    props_pc = "groups" =>
        /\ \A n \in PropNames :
               ~HasConditionedChild(n) => props[n] = LastAssignment(n)
        /\ \A i \in DOMAIN prop_groups :
               /\ ~prop_groups[i].cond.has => prop_trace[i].matched
               /\ \A operand \in config_types :
                      prop_groups[i].cond = ConfigIs(operand) =>
                          (prop_trace[i].matched <=>
                               prop_trace[i].before[CONFIGURATION] =
                                   GroupConfiguration(operand))
               /\ ~prop_trace[i].matched => GroupAfter(i) = prop_trace[i].before
        /\ ( /\ Len(prop_groups) = 2
             /\ prop_groups[1] =
                    [cond |-> NoCondition,
                     children |-> <<[tag |-> "AssemblyName",
                                     cond |-> NoCondition, text |-> "Foo"]>>]
             /\ prop_groups[2] =
                    [cond |-> ConfigIs("'Release'"),
                     children |-> <<[tag |-> "AssemblyName",
                                     cond |-> NoCondition,
                                     text |-> "FooRelease"]>>] ) =>
               props["AssemblyName"] =
                   IF registry_config[CONFIGURATION] = "Release"
                   THEN "FooRelease" ELSE "Foo"

\* With Configuration=Release seeded, a group conditioned on Release matched
\* and its assignment replaced the Foo of an unconditioned group before it.
C8_Witness ==
    /\ props_pc = "groups"
    /\ registry_config[CONFIGURATION] = "Release"
    /\ Len(prop_groups) = 2
    /\ ~prop_groups[1].cond.has
    /\ prop_groups[2].cond = ConfigIs("'Release'")
    /\ prop_trace[2].matched
    /\ prop_trace[2].before["AssemblyName"] = "Foo"
    /\ props["AssemblyName"] = "FooRelease"

\* The text without its whitespace.
Strip(t) == SelectSeq(t, LAMBDA x : x # Ws)

\* The text is, up to whitespace, exactly  lhs == rhs  with rhs among operands.
IsEqExpr(t, lhs, operands) ==
    /\ Len(Strip(t)) = 3
    /\ Strip(t)[1] = lhs
    /\ Strip(t)[2] = EqEq
    /\ Strip(t)[3] \in operands

\* C9: parse_condition returns (T, p) for a bare-configuration condition with
\* recognized token T, (c, U) for a bare-platform condition with recognized
\* token U, (T, U) for a combined condition, and (c, p) for every other text.
C9_ParseConditionForms ==
    condition # Pending =>
        condition =
            IF IsEqExpr(text, HasConfig, config_types)
            THEN <<GroupConfiguration(Strip(text)[3]), platform>>
            ELSE IF IsEqExpr(text, HasPlatform, platform_types)
            THEN <<configuration, GroupPlatform(Strip(text)[3])>>
            ELSE IF IsEqExpr(text, HasBoth, combined_types)
            THEN <<GroupConfiguration(Strip(text)[3]),
                   GroupPlatform(Strip(text)[3])>>
            ELSE <<configuration, platform>>

\* C10: a fresh registry load that finds no file at the path returns Dangling
\* without a parse attempt (Project.load's own backtrace is the id alone), and
\* leaves the id in the dangling set and in no other set.
C10_MissingFileDangling ==
    ( /\ pc = "idle" /\ result.kind # "None"
      /\ hist.entry = "None" /\ hist.observed.kind = "missing" ) =>
        /\ result.kind = "Dangling"
        /\ ~hist.parsed
        /\ project_id \in project_dangling
        /\ project_id \notin DOMAIN project_complete
        /\ project_id \notin project_incompatible
        /\ project_id \notin project_loading

\* A fresh load of an id without a file returned, after a file with a parse
\* fault had been found at that path by an earlier load.
C10_Witness ==
    /\ pc = "idle"
    /\ hist.entry = "None"
    /\ hist.observed.kind = "missing"
    /\ result.kind = "Dangling"
    /\ project_id \in hist.raised

\* C11: every fresh load that finds a well-formed document whose root is not
\* a Project element returns Incompatible, raises nothing, and leaves the id
\* in the registry's incompatible set.
C11_ForeignRootIncompatible ==
    ( /\ pc \in {"idle", "add_loop"} /\ result.kind # "None"
      /\ hist.entry = "None" /\ hist.observed.kind = "foreign" ) =>
        /\ result.kind = "Incompatible"
        /\ project_id \in project_incompatible

\* The terminal sets of the registry.
Terminal(complete, dangling, incompatible) ==
    DOMAIN complete \cup dangling \cup incompatible

\* C12: a load call for an id that is in the loading set returns Cycle with
\* backtrace exactly [id] and leaves complete, dangling, incompatible and
\* loading as they were; and no load call that returns Cycle leaves its id in
\* complete, dangling or incompatible.
C12_CycleLeavesRegistry ==
    [][ /\ ( /\ hist.reentry = NoReentry /\ hist'.reentry # NoReentry
             /\ hist'.reentry.id \in project_loading ) =>
               /\ hist'.reentry.result =
                      ProjectLoadCycle(<<hist'.reentry.id>>)
               /\ UNCHANGED registry_vars
        /\ ( /\ hist.reentry = NoReentry /\ hist'.reentry # NoReentry
             /\ hist'.reentry.result.kind = "Cycle" ) =>
               hist'.reentry.id \notin
                   Terminal(project_complete', project_dangling',
                            project_incompatible')
        /\ ( pc = "loading" /\ pc' # "loading" /\ result'.kind = "Cycle" ) =>
               project_id \notin
                   Terminal(project_complete', project_dangling',
                            project_incompatible')
      ]_vars

\* While the load of an id is inside Project.load, a second call for the
\* same id came back with Cycle.
C12_Witness ==
    /\ pc = "loading"
    /\ hist.reentry.id = project_id
    /\ hist.reentry.result.kind = "Cycle"
    /\ project_id \in project_loading

\* C13: while a fresh load of an id is in progress the id is in the loading
\* set, and once the load has been left, by a result or by an exception, the
\* id is out of it again: the loading set is empty whenever no load is in
\* progress.
C13_LoadingTransient ==
    /\ pc = "loading" => project_loading = {project_id}
    /\ pc # "loading" => project_loading = {}

\* A fresh load was left by an exception of the parse.
C13_Witness ==
    /\ pc = "idle"
    /\ hist.entry = "None"
    /\ result.kind = "Raised"
    /\ hist.parsed
    /\ project_loading = {}

\* The ProjectIds declared under guid g by the references of the complete
\* projects.
DeclaredUnder(g) ==
    {pr[1] : pr \in {q \in UNION {project_ref_ids[p] :
                                     p \in DOMAIN project_ref_ids} :
                        q[2] = g}}

\* C14: after the scan of a loaded solution a Guid g is a key of
\* duplicated_guids exactly when two or more distinct ProjectIds are declared
\* under g by the references of the complete projects, and duplicated_guids[g]
\* then holds every one of them (so at least two).
C14_DuplicatedGuids ==
    scan_pc = "done" =>
        \A g \in Guids :
            /\ g \in DOMAIN duplicated_guids <=>
                   Cardinality(DeclaredUnder(g)) >= 2
            /\ g \in DOMAIN duplicated_guids =>
                   /\ DeclaredUnder(g) \subseteq duplicated_guids[g]
                   /\ Cardinality(duplicated_guids[g]) >= 2

\* Three ProjectIds were declared under one Guid, by more than one project,
\* while another Guid names a single project.
C14_Witness ==
    /\ scan_pc = "done"
    /\ \E g \in Guids : /\ g \in DOMAIN duplicated_guids
                        /\ Cardinality(duplicated_guids[g]) = 3
    /\ \E g \in Guids : Cardinality(DeclaredUnder(g)) = 1

\* The combined dependency graph of a project set: the project references of
\* every complete project and the producer picked for each of its assembly
\* references.
CombinedRefs ==
    [p \in ProjectIds |->
        [refs |-> IF p \in DOMAIN project_complete
                  THEN project_complete[p].refs \cup
                       {build_pick[n] :
                           n \in project_complete[p].asm \cap DOMAIN build_pick}
                  ELSE {}]]

CombinedAcyclic ==
    \A p \in DOMAIN project_complete :
        p \notin Reachable(CombinedRefs, CombinedRefs[p].refs)

\* C15: on a project set whose combined dependency graph is acyclic,
\* compute_build_order returns a list that holds every complete project
\* exactly once and every project after each project it depends on.
C15_BuildOrder ==
    (build_pc = "done" /\ CombinedAcyclic) =>
        /\ build_result.kind = "list"
        /\ \A p \in DOMAIN project_complete :
               Cardinality({i \in DOMAIN build_result.path :
                               build_result.path[i] = p}) = 1
        /\ \A p \in DOMAIN project_complete :
               \A d \in CombinedRefs[p].refs \cap DOMAIN project_complete :
                   \E i, j \in DOMAIN build_result.path :
                       /\ build_result.path[i] = d
                       /\ build_result.path[j] = p
                       /\ i < j

\* C16: a complete project has a derived output exactly when its property
\* table holds AssemblyName, OutputPath and an OutputType that is (in any
\* letter case) Exe, WinExe or Library; the extension is exe for Exe and
\* WinExe and dll for Library, and the output name is AssemblyName.  Every
\* complete project without a derived output is in the without-output set
\* and in none of the output indices.
C16_OutputDerivation ==
    \A p \in DOMAIN project_complete :
        LET table == project_props[p]
            derived == project_output[p]
        IN  /\ derived # NoDerived <=>
                   /\ table["AssemblyName"] # Absent
                   /\ table["OutputPath"] # Absent
                   /\ Upper(table["OutputType"]) \in
                          {"EXE", "WINEXE", "LIBRARY"}
            /\ derived # NoDerived =>
                   /\ derived.name = table["AssemblyName"]
                   /\ Upper(table["OutputType"]) \in {"EXE", "WINEXE"} =>
                          derived.ext = "exe"
                   /\ Upper(table["OutputType"]) = "LIBRARY" =>
                          derived.ext = "dll"
            /\ derived = NoDerived =>
                   /\ p \in projects_sans_output
                   /\ p \notin DOMAIN outputs_by_project
                   /\ \A o \in DOMAIN projects_by_output :
                          projects_by_output[o] # p
                   /\ \A o \in DOMAIN duplicate_outputs :
                          p \notin duplicate_outputs[o]

\* Three projects were added: one deriving an executable from WinExe, one
\* deriving a library, one with an OutputType that is not recognized.
C16_Witness ==
    \E p, q, r \in DOMAIN project_complete :
        /\ project_props[p]["OutputType"] = "WinExe"
        /\ project_output[p].ext = "exe"
        /\ project_output[q].ext = "dll"
        /\ project_props[r]["OutputType"] = "Custom"
        /\ project_props[r]["AssemblyName"] # Absent
        /\ project_props[r]["OutputPath"] # Absent
        /\ r \in projects_sans_output

\* C17: when the parse of one file raises during ProjectSet.add, only that
\* file's load is given up: once the call has ended, every other id reachable
\* from the seed over the references of the files is classified, and ids
\* classified before the exception stay classified.
C17_FaultContained ==
    ( pc = "idle" /\ hist.add \in {"returned", "raised"} ) =>
        \A q \in Reachable(fs, {hist.seed}) :
            fs[q].kind # "faulty" => Classified(q)

\* C18: topsort returns (False, path) exactly when a cycle of project
\* references among complete projects can be reached from a solution root,
\* and (True, order) in every other case.
C18_TopsortFailsOnCycle ==
    ts_pc = "done" => (~topsort_result.ok <=> ~Acyclic)

\* topsort failed on a cycle of two projects that its root only leads to,
\* no project referring to itself.
C18_Witness ==
    /\ ts_pc = "done"
    /\ ~topsort_result.ok
    /\ \E r \in project_roots :
          /\ r \in DOMAIN project_complete
          /\ r \notin Reachable(CompleteRefs, project_complete[r].refs)
          /\ topsort_result.order[1] = r
    /\ \A p \in DOMAIN project_complete : p \notin project_complete[p].refs

\* C20: after ProjectSet.add(seed) has returned, every id reachable from the
\* seed over the declared references of complete projects is in complete,
\* dangling, incompatible or cyclic.
C20_ReachableClassified ==
    ( pc = "idle" /\ hist.add = "returned" ) =>
        \A q \in Reachable(CompleteRefs, {hist.seed}) : Classified(q)

\* C19: every ProjectSet.add call terminates, whatever the reference graph
\* (self-references and longer cycles included), and during the lifetime of
\* a ProjectSet no file is parsed more than once.
C19_AddTerminatesParseOnce ==
    /\ (pc # "idle") ~> (pc = "idle")
    /\ [](\A p \in ProjectIds : parse_count[p] <= 1)

\* Every call of add that was entered is left again.
AddTerminates == (pc # "idle") ~> (pc = "idle")

\* A file is parsed a second time only after its parse raised.
ParsedAgainOnlyAfterRaise ==
    \A p \in ProjectIds : parse_count[p] <= 1 \/ p \in hist.raised

\* C21: whenever no ProjectSet.add call is running, P is a member of
\* parents[C] exactly when P is complete and declares a project reference to
\* C, whatever became of C itself.
C21_ParentEdges ==
    pc = "idle" =>
        \A P, C \in ProjectIds :
            (C \in DOMAIN project_parents /\ P \in project_parents[C]) <=>
                (P \in DOMAIN project_complete /\ C \in project_complete[P].refs)

\* An add returned that recorded a parent of a dangling id, a parent of a
\* complete id, and a project that is its own parent.
C21_Witness ==
    /\ pc = "idle" /\ hist.add = "returned"
    /\ \E C \in project_dangling : C \in DOMAIN project_parents
    /\ \E C \in DOMAIN project_complete :
          C \in DOMAIN project_parents /\ project_parents[C] # {C}
    /\ \E C \in DOMAIN project_complete :
          C \in DOMAIN project_parents /\ C \in project_parents[C]

\* The indices of the sequence s at which p stands.
Occurrences(s, p) == {i \in DOMAIN s : s[i] = p}

\* C22: when topsort returns (True, order), order holds every project
\* reachable from the roots exactly once and nothing else, the dangling and
\* incompatible ones among them included; and on a solution without a cycle
\* of references topsort returns True however many of the reachable projects
\* are dangling or incompatible.
C22_TopsortOrderContent ==
    ts_pc = "done" =>
        /\ topsort_result.ok =>
               \A p \in ProjectIds :
                   Cardinality(Occurrences(topsort_result.order, p)) =
                       IF p \in Reachable(CompleteRefs, project_roots)
                       THEN 1 ELSE 0
        /\ Acyclic => topsort_result.ok

\* topsort succeeded on a solution of three reachable projects, one of them
\* dangling and referenced by the two others.
C22_Witness ==
    /\ ts_pc = "done"
    /\ topsort_result.ok
    /\ Len(topsort_result.order) = 3
    /\ \E d \in project_dangling :
          /\ Occurrences(topsort_result.order, d) # {}
          /\ d \in DOMAIN project_parents
          /\ Cardinality(project_parents[d]) = 2

\* The members a MultiMap holds for key p.
MultiMapGet(m, p) == IF p \in DOMAIN m THEN m[p] ELSE {}

\* The assembly references of complete project P that dangle: a path is
\* given and does not exist.
DanglingAssemblyRefs(P) ==
    {a \in project_assembly_refs[P] : a.path # NoPath /\ a.path \notin disk}

\* C23: for every complete project P of a project set, dangling_sources[P]
\* holds exactly the source references of P whose path does not exist, and
\* dangling_assemblies[P] exactly the assembly references of P that have a
\* path which does not exist; the two multimaps have no other key.
C23_DanglingRefs ==
    /\ \A P \in DOMAIN project_complete :
          /\ MultiMapGet(source_dangling, P) =
                 {x \in project_source_refs[P] : x.path \notin disk}
          /\ MultiMapGet(assembly_dangling, P) = DanglingAssemblyRefs(P)
    /\ DOMAIN source_dangling \subseteq DOMAIN project_complete
    /\ DOMAIN assembly_dangling \subseteq DOMAIN project_complete

\* The assembly half of C23.
AssemblyDanglingExact ==
    /\ \A P \in DOMAIN project_complete :
          MultiMapGet(assembly_dangling, P) = DanglingAssemblyRefs(P)
    /\ DOMAIN assembly_dangling \subseteq DOMAIN project_complete

\* Complete project p names, among its assembly references, the output it
\* derives itself, and is the only producer of that name.
SelfProducing(p) ==
    /\ p \in DOMAIN outputs_by_project
    /\ AssemblyName(outputs_by_project[p]) \in project_complete[p].asm
    /\ ProjectsByOutputName(projects_by_output)
           [AssemblyName(outputs_by_project[p])] = {p}

\* The combined dependency graph without the edges that lead from a project
\* to itself over an assembly reference.
CombinedRefsToOthers ==
    [p \in ProjectIds |->
        [refs |-> IF p \in DOMAIN project_complete
                  THEN project_complete[p].refs \cup
                       ({build_pick[n] :
                            n \in project_complete[p].asm \cap DOMAIN build_pick}
                        \ {p})
                  ELSE {}]]

\* C24: an assembly reference makes a project depend on a different project
\* only: on a project set that holds a project naming its own output among
\* its assembly references, and whose dependencies on other projects form no
\* cycle, compute_build_order reports no dependency cycle.
C24_NoSelfDependency ==
    ( /\ build_pc = "done"
      /\ \E p \in DOMAIN project_complete : SelfProducing(p)
      /\ \A p \in DOMAIN project_complete :
            p \notin Reachable(CombinedRefsToOthers,
                               CombinedRefsToOthers[p].refs) ) =>
        build_result.kind # "RuntimeError"

\* C25: the load of one project file never ends with two different
\* ProjectIds recorded under one Guid: the second such project reference
\* raises, so no complete project holds both.
C25_SameGuidFault ==
    \A p \in DOMAIN project_ref_ids :
        \A q1, q2 \in project_ref_ids[p] :
            q1[2] = q2[2] => q1[1] = q2[1]

\* C26: every Dangling result of the registry holds the loaded id exactly
\* once in its backtrace, and a load of the same id that follows, answered
\* from the dangling set, returns the backtrace the load before it returned.
C26_DanglingBacktraceStable ==
    /\ []( (LoadReturned /\ result.kind = "Dangling") =>
               Cardinality(Occurrences(result.backtrace, project_id)) = 1 )
    /\ [][ ( /\ LoadReturned /\ result.kind = "Dangling"
             /\ pc' = "idle" /\ result'.kind = "Dangling"
             /\ project_id' = project_id ) =>
               result'.backtrace = result.backtrace ]_vars

\* The second half of C26 alone.
DanglingBacktraceRepeats ==
    [][ ( /\ LoadReturned /\ result.kind = "Dangling"
          /\ pc' = "idle" /\ result'.kind = "Dangling"
          /\ project_id' = project_id ) =>
            result'.backtrace = result.backtrace ]_vars

\* Every Configuration element of the groups processed so far carries the
\* empty-comparison condition and stands in a group whose own condition names
\* no recognized token.
OnlyDefaultConfiguration ==
    \A i \in DOMAIN prop_groups :
        \A k \in DOMAIN prop_groups[i].children :
            prop_groups[i].children[k].tag = CONFIGURATION =>
                /\ prop_groups[i].children[k].cond = ConfigIs("''")
                /\ prop_groups[i].cond \notin {ConfigIs(c) : c \in config_types}

\* C27: with a Configuration value seeded by the registry, Configuration
\* elements conditioned on '$(Configuration)'=='' do not overwrite it: as
\* long as nothing else assigns Configuration, the table keeps the seed.
C27_SeedNotOverwritten ==
    ( /\ props_pc = "groups"
      /\ registry_config[CONFIGURATION] # Absent
      /\ OnlyDefaultConfiguration ) =>
        props[CONFIGURATION] = registry_config[CONFIGURATION]

\* C28: in every state of a project set projects_by_output and
\* outputs_by_project are inverse maps of each other, no output identity is a
\* key of both projects_by_output and duplicate_outputs, and every key of
\* duplicate_outputs holds at least two projects.
C28_OutputIndexInverse ==
    /\ \A o \in DOMAIN projects_by_output :
          /\ projects_by_output[o] \in DOMAIN outputs_by_project
          /\ outputs_by_project[projects_by_output[o]] = o
    /\ \A p \in DOMAIN outputs_by_project :
          /\ outputs_by_project[p] \in DOMAIN projects_by_output
          /\ projects_by_output[outputs_by_project[p]] = p
    /\ DOMAIN projects_by_output \cap DOMAIN duplicate_outputs = {}
    /\ \A o \in DOMAIN duplicate_outputs :
          Cardinality(duplicate_outputs[o]) >= 2

\* Three projects were added: two collided on one output, the third is the
\* single owner of another.
C28_Witness ==
    /\ Cardinality(DOMAIN project_complete) = 3
    /\ \E o \in DOMAIN duplicate_outputs :
          Cardinality(duplicate_outputs[o]) = 2
    /\ Cardinality(DOMAIN projects_by_output) = 1
    /\ Cardinality(DOMAIN outputs_by_project) = 1

\* C29: when topsort returns (False, path), path starts at a solution root,
\* ends at the project that was found GREY, which also stands earlier in the
\* path, and every project of the path declares a reference to the one that
\* follows it.
C29_CyclePathShape ==
    (ts_pc = "done" /\ ~topsort_result.ok) =>
        LET path == topsort_result.order
            last == path[Len(path)]
        IN  /\ path[1] \in project_roots
            /\ marks[last] = "GREY"
            /\ \E i \in 1..(Len(path) - 1) : path[i] = last
            /\ \A i \in 1..(Len(path) - 1) :
                   /\ path[i] \in DOMAIN project_complete
                   /\ path[i + 1] \in project_complete[path[i]].refs

\* C29 without its last part: the path starts at a root and ends at the GREY
\* project, which stands earlier in it as well.
CyclePathEnds ==
    (ts_pc = "done" /\ ~topsort_result.ok) =>
        LET path == topsort_result.order
            last == path[Len(path)]
        IN  /\ path[1] \in project_roots
            /\ marks[last] = "GREY"
            /\ \E i \in 1..(Len(path) - 1) : path[i] = last

\* The files that load Ok.
Loadable(p) == fs[p].kind \in {"project", "foreign"}

\* What the seeds passed so far lead to over the references of the files,
\* and the projects among it that derive output o.
SeedClosure == Reachable(fs, added_seeds)
Producers(o) == {p \in SeedClosure : Loadable(p) /\ fs[p].out = o}

\* C30: whenever no add call is running, the state of the project set is
\* the one the file system and the set of seeds passed so far determine,
\* whatever the order of the calls and however often a seed was passed:
\* complete and dangling are the loadable and the missing files the seeds
\* lead to, incompatible and cyclic are empty, parents holds the references
\* of the complete projects, and the output indices hold the outputs these
\* projects derive.
C30_SeedOrderIndependent ==
    pc = "idle" =>
        /\ DOMAIN project_complete = {p \in SeedClosure : Loadable(p)}
        /\ \A p \in DOMAIN project_complete :
              /\ project_complete[p].refs = fs[p].refs
              /\ project_complete[p].out = fs[p].out
        /\ project_dangling = {p \in SeedClosure : fs[p].kind = "missing"}
        /\ project_incompatible = {}
        /\ project_cyclic = {}
        /\ \A c \in ProjectIds :
              MultiMapGet(project_parents, c) =
                  {p \in SeedClosure : Loadable(p) /\ c \in fs[p].refs}
        /\ projects_sans_output = Producers(NoOutput)
        /\ \A o \in AssemblyIds :
              /\ o \in DOMAIN projects_by_output <=>
                     Cardinality(Producers(o)) = 1
              /\ o \in DOMAIN projects_by_output =>
                     Producers(o) = {projects_by_output[o]}
              /\ MultiMapGet(duplicate_outputs, o) =
                     IF Cardinality(Producers(o)) >= 2
                     THEN Producers(o) ELSE {}
        /\ \A p \in ProjectIds :
              /\ p \in DOMAIN outputs_by_project <=>
                     ( /\ p \in SeedClosure /\ Loadable(p)
                       /\ fs[p].out # NoOutput
                       /\ Cardinality(Producers(fs[p].out)) = 1 )
              /\ p \in DOMAIN outputs_by_project =>
                     outputs_by_project[p] = fs[p].out

\* C30 on file systems none of whose files has a parse fault.
SeedOrderIndependentSansFault ==
    (\A p \in ProjectIds : fs[p].kind # "faulty") => C30_SeedOrderIndependent

====
